---- MODULE Spec2Model ----
(***************************************************************************)
(* Model of the OpenBikeControl message codec                              *)
(* (examples/python/protocol_parser.py).                                   *)
(*                                                                         *)
(* A byte buffer is a sequence of integers in 0..255.  The source indexes  *)
(* buffers from 0; the operators below keep the source's 0-based indices   *)
(* and translate at the point of access (data[idx] is data[idx + 1] here). *)
(* A Python string is a sequence of Unicode code points; str.encode and    *)
(* bytes.decode are modelled by the UTF-8 transformation itself.           *)
(* A call either returns a value or raises: both are a record              *)
(* [ok, err, val], err holding the text of the raised error.               *)
(***************************************************************************)
EXTENDS Integers, Sequences, FiniteSets, TLC

\* one call of the codec, or one exchange over BLE
VARIABLES pc, op, arg, wire, res

\* a TCP connection between the trainer app (tcp_trainer_app.py) and the
\* mock device (mock_device_tcp.py):
\*   astart   the function of the app the run starts in
\*   apc      where the app is
\*   amsg     msg_type of the read loop
\*   aexit    why the app left the read loop or gave up
\*   toApp    the bytes the device wrote that the app has not read yet
\*   toDev    the bytes the app wrote
\*   decoded  the button events parse_button_state returned to the app
\*   sent     the button events the device wrote
\*   dpc      the number of messages the device wrote
\*   dev      "serving" while handle_client runs, "closed" after
VARIABLES astart, apc, amsg, aexit, toApp, toDev, decoded, sent, dpc, dev

\* handle_client of the mock TCP device (mock_device_tcp.py) with a client
\* of any kind; toDev, toApp, sent and dpc are used as above:
\*   hpc       where handle_client is
\*   hmsg      msg_type of its read loop
\*   hhdr      header of an app info message
\*   reported  the haptic patterns it has reported
\*   btask     the state of the task button_task (simulate_buttons)
\*   clients   TRUE while the writer is in device.connected_clients
\*   wclosed   TRUE once writer.close() was called
\*   script    the messages the client writes
\*   cpos      the number of messages the client has written
\*   conn      the connection as the client left it: "open", "eof" after
\*             the client closed, "reset" after it was lost with an error
VARIABLES hpc, hmsg, hhdr, reported, btask, clients, wclosed, script, cpos,
          conn

\* websocket_handler of the mock WebSocket device (mock_device.py):
\*   wpc      where the handler is: "start", "receive" (async for msg in
\*            ws), "respond" (about to send the haptic response),
\*            "finished" (returned after the clean-up), "raised" (left by
\*            an exception)
\*   wtask    the button simulation task: "none", "running", "done",
\*            "failed", "cancelled"
\*   wclients TRUE when ws is in device.connected_clients
\*   wscript  the messages the client sends, wpos of them received
\*   wconn    the connection: "open", "closed" (closed by the client),
\*            "lost"
\*   wsent    the messages sent to the client
\*   wdpc     index of the next message of the button simulation
VARIABLES wpc, wtask, wclients, wscript, wpos, wconn, wsent, wdpc

codecvars == <<pc, op, arg, wire, res>>

tcpvars == <<astart, apc, amsg, aexit, toApp, toDev, decoded, sent, dpc, dev>>

hcvars ==
  <<hpc, hmsg, hhdr, reported, btask, clients, wclosed, script, cpos, conn>>

wsvars == <<wpc, wtask, wclients, wscript, wpos, wconn, wsent, wdpc>>

vars == <<codecvars, tcpvars, hcvars, wsvars>>

(***************************************************************************)
(* Bounds of the explored inputs.                                          *)
(***************************************************************************)
MaxEvents == 2
MaxButtons == 2
MaxRaw == 4
MaxBody == 5
LongLen == 50
MaxMsgs == 2

(***************************************************************************)
(* Protocol constants.                                                     *)
(***************************************************************************)
MSG_TYPE_BUTTON_STATE == 1
MSG_TYPE_DEVICE_STATUS == 2
MSG_TYPE_HAPTIC_FEEDBACK == 3
MSG_TYPE_APP_INFO == 4
APP_INFO_VERSION == 1
MAX_STR_BYTES == 32
NO_BATTERY == 255

HAPTIC_PATTERNS ==
  [none |-> 0, short |-> 1, double |-> 2, triple |-> 3,
   long |-> 4, success |-> 5, warning |-> 6, error |-> 7]

PatternNames == DOMAIN HAPTIC_PATTERNS

(***************************************************************************)
(* Results of a call.                                                      *)
(***************************************************************************)
Ok(v) == [ok |-> TRUE, err |-> "", val |-> v]

Raise(e) == [ok |-> FALSE, err |-> e, val |-> <<>>]

NoResult == [ok |-> FALSE, err |-> "not called", val |-> <<>>]

Min(a, b) == IF a < b THEN a ELSE b

IsByte(x) == x \in 0..255

\* bytes(...) / bytearray.append / bytearray.extend accept only 0..255
AllBytes(s) == \A i \in 1..Len(s) : IsByte(s[i])

\* data[a:b] with 0 <= a <= b: a slice never reaches past the buffer
Slice(data, a, b) == SubSeq(data, a + 1, Min(b, Len(data)))

\* no slice at all
TruncateNone(bytes) == bytes

\* a slice [:31]
TruncateShort(bytes) == SubSeq(bytes, 1, Min(Len(bytes), MAX_STR_BYTES - 1))

\* label_bytes[:32] and friends
Truncate(bytes) == SubSeq(bytes, 1, Min(Len(bytes), MAX_STR_BYTES))

(***************************************************************************)
(* UTF-8: str.encode('utf-8') and bytes.decode('utf-8') (strict).          *)
(***************************************************************************)
Utf8Char(c) ==
  IF c < 128 THEN <<c>>
  ELSE IF c < 2048 THEN <<192 + (c \div 64), 128 + (c % 64)>>
  ELSE IF c < 65536
    THEN <<224 + (c \div 4096), 128 + ((c \div 64) % 64), 128 + (c % 64)>>
  ELSE <<240 + (c \div 262144), 128 + ((c \div 4096) % 64),
         128 + ((c \div 64) % 64), 128 + (c % 64)>>

RECURSIVE Utf8Encode(_)
Utf8Encode(s) ==
  IF s = <<>> THEN <<>> ELSE Utf8Char(Head(s)) \o Utf8Encode(Tail(s))

IsCont(b) == b \in 128..191

\* Number of bytes of the well-formed UTF-8 sequence that starts at
\* position i (1-based) of b, or 0 when there is none.
Utf8SeqLen(b, i) ==
  LET n == Len(b)
      b0 == b[i]
  IN  IF b0 < 128 THEN 1
      ELSE IF b0 \in 194..223
        THEN IF i + 1 <= n /\ IsCont(b[i + 1]) THEN 2 ELSE 0
      ELSE IF b0 \in 224..239
        THEN IF /\ i + 2 <= n
                /\ IsCont(b[i + 2])
                /\ b[i + 1] \in (IF b0 = 224 THEN 160..191
                                 ELSE IF b0 = 237 THEN 128..159
                                 ELSE 128..191)
             THEN 3 ELSE 0
      ELSE IF b0 \in 240..244
        THEN IF /\ i + 3 <= n
                /\ IsCont(b[i + 2])
                /\ IsCont(b[i + 3])
                /\ b[i + 1] \in (IF b0 = 240 THEN 144..191
                                 ELSE IF b0 = 244 THEN 128..143
                                 ELSE 128..191)
             THEN 4 ELSE 0
      ELSE 0

Utf8Point(b, i, k) ==
  IF k = 1 THEN b[i]
  ELSE IF k = 2 THEN (b[i] - 192) * 64 + (b[i + 1] - 128)
  ELSE IF k = 3
    THEN (b[i] - 224) * 4096 + (b[i + 1] - 128) * 64 + (b[i + 2] - 128)
  ELSE (b[i] - 240) * 262144 + (b[i + 1] - 128) * 4096
       + (b[i + 2] - 128) * 64 + (b[i + 3] - 128)

RECURSIVE Utf8Valid(_, _)
Utf8Valid(b, i) ==
  IF i > Len(b) THEN TRUE
  ELSE LET k == Utf8SeqLen(b, i)
       IN  IF k = 0 THEN FALSE ELSE Utf8Valid(b, i + k)

RECURSIVE Utf8Points(_, _)
Utf8Points(b, i) ==
  IF i > Len(b) THEN <<>>
  ELSE LET k == Utf8SeqLen(b, i)
       IN  <<Utf8Point(b, i, k)>> \o Utf8Points(b, i + k)

\* bytes.decode('utf-8'): the string, or UnicodeDecodeError
Utf8Decode(b) ==
  IF Utf8Valid(b, 1) THEN Ok(Utf8Points(b, 1)) ELSE Raise("UnicodeDecodeError")

(***************************************************************************)
(* Button state.                                                           *)
(***************************************************************************)
\* ButtonPairs with the bounds test off by one: the last pair is lost
RECURSIVE ButtonPairsShort(_, _)
ButtonPairsShort(data, i) ==
  IF i >= Len(data) THEN <<>>
  ELSE IF i + 2 < Len(data)
    THEN <<(<<data[i + 1], data[i + 2]>>)>> \o ButtonPairsShort(data, i + 2)
  ELSE ButtonPairsShort(data, i + 2)

\* the loop "for i in range(i, len(data), 2)" of parse_button_state
RECURSIVE ButtonPairs(_, _)
ButtonPairs(data, i) ==
  IF i >= Len(data) THEN <<>>
  ELSE IF i + 1 < Len(data)
    THEN <<(<<data[i + 1], data[i + 2]>>)>> \o ButtonPairs(data, i + 2)
  ELSE ButtonPairs(data, i + 2)

\* parse_button_state without the test of the message type
parse_button_state_any_tag(data) ==
  IF Len(data) = 0 THEN Ok(<<>>) ELSE Ok(ButtonPairs(data, 1))

parse_button_state(data) ==
  IF Len(data) = 0 THEN Ok(<<>>)
  ELSE IF data[1] # MSG_TYPE_BUTTON_STATE THEN Ok(<<>>)
  ELSE Ok(ButtonPairs(data, 1))

RECURSIVE PairBytes(_)
PairBytes(buttons) ==
  IF buttons = <<>> THEN <<>>
  ELSE <<Head(buttons)[1], Head(buttons)[2]>> \o PairBytes(Tail(buttons))

encode_button_state(buttons) ==
  IF AllBytes(PairBytes(buttons))
  THEN Ok(<<MSG_TYPE_BUTTON_STATE>> \o PairBytes(buttons))
  ELSE Raise("ValueError: byte must be in range(0, 256)")

(***************************************************************************)
(* format_button_state.  A Python str is a TLA+ string here.               *)
(***************************************************************************)
BUTTON_NAMES ==
  (1 :> "Shift Up") @@ (2 :> "Shift Down") @@ (3 :> "Gear Set")
  @@ (16 :> "Up") @@ (17 :> "Down") @@ (18 :> "Left/Steer Left")
  @@ (19 :> "Right/Steer Right") @@ (20 :> "Select/Confirm")
  @@ (21 :> "Back/Cancel") @@ (22 :> "Menu")
  @@ (32 :> "Emote (analog enum)")
  @@ (64 :> "Switch Camera View (analog enum)")
  @@ (68 :> "HUD Toggle") @@ (69 :> "Map Toggle")
  @@ (80 :> "Power-up 1") @@ (81 :> "Power-up 2") @@ (82 :> "Power-up 3")

emote_map ==
  (0 :> "None") @@ (1 :> "Wave") @@ (2 :> "Thumbs Up")
  @@ (3 :> "Hammer Time") @@ (4 :> "Bell")

camera_map == (0 :> "Camera 1") @@ (1 :> "Camera 2") @@ (2 :> "Camera 3")

HexDigits ==
  <<"0", "1", "2", "3", "4", "5", "6", "7", "8", "9", "A", "B", "C", "D",
    "E", "F">>

\* f"{n:02X}" for n in 0..255
Hex02X(n) == HexDigits[(n \div 16) + 1] \o HexDigits[(n % 16) + 1]

\* The number of binary digits after the point that a quotient in 0..1
\* keeps here.  A Python float keeps more of them.
FloatBits == 16

\* a / b rounded to the nearest multiple of 2^-FloatBits, as a number of
\* such multiples
FloatDiv(a, b) == (2 * a * (2 ^ FloatBits) + b) \div (2 * b)

\* int(q * 100) for a quotient q of FloatDiv
IntTimes100(q) == (q * 100) \div (2 ^ FloatBits)

\* the percentage with the range 0..255 in the place of 2..255
Percentage255(state) == IntTimes100(FloatDiv(state - 2, 255))

\* percentage = int((state - 2) / (255 - 2) * 100)
Percentage(state) == IntTimes100(FloatDiv(state - 2, 255 - 2))

format_button_state(button_id, state) ==
  LET button_name == IF button_id \in DOMAIN BUTTON_NAMES
                     THEN BUTTON_NAMES[button_id]
                     ELSE "Button 0x" \o Hex02X(button_id)
      state_str ==
        IF button_id = 32
        THEN "ENUM: " \o (IF state \in DOMAIN emote_map THEN emote_map[state]
                          ELSE "Emote " \o ToString(state))
        ELSE IF button_id = 64
        THEN "ENUM: " \o (IF state \in DOMAIN camera_map
                          THEN camera_map[state]
                          ELSE "Camera View " \o ToString(state))
        ELSE IF state = 0 THEN "RELEASED"
        ELSE IF state = 1 THEN "PRESSED"
        ELSE "ANALOG " \o ToString(Percentage(state)) \o "%"
  IN  button_name \o ": " \o state_str

(***************************************************************************)
(* Device status and haptic feedback.                                      *)
(***************************************************************************)
\* encode_device_status that writes 0 for a battery level of None
encode_device_status_none_zero(battery, connected) ==
  LET battery_byte == IF battery = <<>> THEN 0 ELSE battery[1]
      connected_byte == IF connected THEN 1 ELSE 0
  IN  IF IsByte(battery_byte)
      THEN Ok(<<MSG_TYPE_DEVICE_STATUS, battery_byte, connected_byte>>)
      ELSE Raise("ValueError: bytes must be in range(0, 256)")

\* battery is <<>> for None and <<b>> for the integer b
encode_device_status(battery, connected) ==
  LET battery_byte == IF battery = <<>> THEN NO_BATTERY ELSE battery[1]
      connected_byte == IF connected THEN 1 ELSE 0
  IN  IF IsByte(battery_byte)
      THEN Ok(<<MSG_TYPE_DEVICE_STATUS, battery_byte, connected_byte>>)
      ELSE Raise("ValueError: bytes must be in range(0, 256)")

\* parse_device_status that takes every non-zero byte for "connected"
parse_device_status_truthy(data) ==
  IF Len(data) < 3 THEN Raise("Device status message too short")
  ELSE IF data[1] # MSG_TYPE_DEVICE_STATUS THEN Raise("Invalid message type")
  ELSE Ok([battery |-> IF data[2] # NO_BATTERY THEN <<data[2]>> ELSE <<>>,
           connected |-> data[3] # 0])

parse_device_status(data) ==
  IF Len(data) < 3 THEN Raise("Device status message too short")
  ELSE IF data[1] # MSG_TYPE_DEVICE_STATUS THEN Raise("Invalid message type")
  ELSE Ok([battery |-> IF data[2] # NO_BATTERY THEN <<data[2]>> ELSE <<>>,
           connected |-> data[3] = 1])

\* encode_haptic_feedback that falls back on "none"
encode_haptic_feedback_fallback_none(pattern, duration, intensity) ==
  LET pattern_byte == IF pattern \in PatternNames
                      THEN HAPTIC_PATTERNS[pattern]
                      ELSE HAPTIC_PATTERNS["none"]
  IN  IF IsByte(duration) /\ IsByte(intensity)
      THEN Ok(<<MSG_TYPE_HAPTIC_FEEDBACK, pattern_byte, duration, intensity>>)
      ELSE Raise("ValueError: byte must be in range(0, 256)")

encode_haptic_feedback(pattern, duration, intensity) ==
  LET pattern_byte == IF pattern \in PatternNames
                      THEN HAPTIC_PATTERNS[pattern]
                      ELSE HAPTIC_PATTERNS["short"]
  IN  IF IsByte(duration) /\ IsByte(intensity)
      THEN Ok(<<MSG_TYPE_HAPTIC_FEEDBACK, pattern_byte, duration, intensity>>)
      ELSE Raise("ValueError: byte must be in range(0, 256)")

\* HAPTIC_PATTERNS.items(): the names in the order of the dict
PatternOrder ==
  <<"none", "short", "double", "triple", "long", "success", "warning",
    "error">>

\* the reverse lookup: the first name whose value is pattern_byte
RECURSIVE PatternName(_, _)
PatternName(pattern_byte, i) ==
  IF i > Len(PatternOrder) THEN "unknown"
  ELSE IF HAPTIC_PATTERNS[PatternOrder[i]] = pattern_byte THEN PatternOrder[i]
  ELSE PatternName(pattern_byte, i + 1)

HapticDict(data) ==
  [pattern |-> PatternName(data[2], 1), pattern_byte |-> data[2],
   duration |-> data[3], intensity |-> data[4]]

\* parse_haptic_feedback that tests the message type before the length
parse_haptic_feedback_tag_first(data) ==
  IF Len(data) > 0 /\ data[1] # MSG_TYPE_HAPTIC_FEEDBACK
  THEN Raise("Invalid message type")
  ELSE IF Len(data) < 4 THEN Raise("Haptic feedback message too short")
  ELSE Ok(HapticDict(data))

\* parse_haptic_feedback that reads duration and intensity the other way
\* round
parse_haptic_feedback_swapped(data) ==
  IF Len(data) < 4 THEN Raise("Haptic feedback message too short")
  ELSE IF data[1] # MSG_TYPE_HAPTIC_FEEDBACK THEN Raise("Invalid message type")
  ELSE Ok([HapticDict(data) EXCEPT !.duration = data[4],
                                   !.intensity = data[3]])

parse_haptic_feedback(data) ==
  IF Len(data) < 4 THEN Raise("Haptic feedback message too short")
  ELSE IF data[1] # MSG_TYPE_HAPTIC_FEEDBACK THEN Raise("Invalid message type")
  ELSE Ok(HapticDict(data))

(***************************************************************************)
(* The BLE trainer app (examples/python/ble_trainer_app.py) has a decoder  *)
(* and a haptic writer of its own; its HAPTIC_PATTERNS table is the same   *)
(* as the codec's.                                                         *)
(***************************************************************************)
\* the unframed decoder taking its first byte for the message type
ble_parse_button_state_framed(data) == parse_button_state(data).val

\* the loop "for i in range(0, len(data), 2)" of the app's parse_button_state
RECURSIVE ble_parse_button_state(_)
ble_parse_button_state(data) ==
  IF Len(data) = 0 THEN <<>>
  ELSE IF Len(data) = 1 THEN <<>>
  ELSE <<(<<data[1], data[2]>>)>>
         \o ble_parse_button_state(SubSeq(data, 3, Len(data)))

\* data = bytes([pattern_byte, duration, intensity]) of send_haptic_feedback
ble_send_haptic_feedback(pattern, duration, intensity) ==
  LET pattern_byte == IF pattern \in PatternNames
                      THEN HAPTIC_PATTERNS[pattern]
                      ELSE HAPTIC_PATTERNS["short"]
  IN  IF IsByte(duration) /\ IsByte(intensity)
      THEN Ok(<<pattern_byte, duration, intensity>>)
      ELSE Raise("ValueError: bytes must be in range(0, 256)")

\* the value send_app_info writes to the app-info characteristic:
\* [version, app_id, app_version, button count, button ids], no tag, no
\* device type and no hint count
ble_send_app_info(a) ==
  LET app_id_bytes == Truncate(Utf8Encode(a.app_id))
      app_version_bytes == Truncate(Utf8Encode(a.app_version))
  IN  IF ~IsByte(Len(a.supported_buttons))
        THEN Raise("ValueError: byte must be in range(0, 256)")
      ELSE IF ~AllBytes(a.supported_buttons)
        THEN Raise("ValueError: byte must be in range(0, 256)")
      ELSE Ok(<<APP_INFO_VERSION>>
                \o <<Len(app_id_bytes)>> \o app_id_bytes
                \o <<Len(app_version_bytes)>> \o app_version_bytes
                \o <<Len(a.supported_buttons)>> \o a.supported_buttons)

\* the haptic commands the notification callback writes: one "short" for
\* every decoded pair whose state is 1
RECURSIVE BleHapticWrites(_)
BleHapticWrites(buttons) ==
  IF buttons = <<>> THEN <<>>
  ELSE (IF Head(buttons)[2] = 1
        THEN <<ble_send_haptic_feedback("short", 0, 0).val>>
        ELSE <<>>) \o BleHapticWrites(Tail(buttons))

(***************************************************************************)
(* App info.  An AppInfo argument is a record; button_hints is the dict's  *)
(* items in iteration order, a sequence of <<button_id, label>> with       *)
(* distinct button ids.  A decoded button_hints dict is a function.        *)
(***************************************************************************)
RECURSIVE HintBytes(_)
HintBytes(hints) ==
  IF hints = <<>> THEN <<>>
  ELSE LET button_id == Head(hints)[1]
           label_bytes == Truncate(Utf8Encode(Head(hints)[2]))
       IN  <<button_id, Len(label_bytes)>> \o label_bytes
             \o HintBytes(Tail(hints))

\* id and label of every hint pass through bytearray.append / extend
HintIdsAreBytes(hints) == \A i \in 1..Len(hints) : IsByte(hints[i][1])

encode_app_info(a) ==
  LET device_type_bytes == Truncate(Utf8Encode(a.device_type))
      app_id_bytes == Truncate(Utf8Encode(a.app_id))
      app_version_bytes == Truncate(Utf8Encode(a.app_version))
      head == <<MSG_TYPE_APP_INFO, APP_INFO_VERSION>>
                \o <<Len(device_type_bytes)>> \o device_type_bytes
                \o <<Len(app_id_bytes)>> \o app_id_bytes
                \o <<Len(app_version_bytes)>> \o app_version_bytes
  IN  IF ~IsByte(Len(a.supported_buttons))
        THEN Raise("ValueError: byte must be in range(0, 256)")
      ELSE IF ~AllBytes(a.supported_buttons)
        THEN Raise("ValueError: byte must be in range(0, 256)")
      ELSE IF ~IsByte(Len(a.button_hints))
        THEN Raise("ValueError: byte must be in range(0, 256)")
      ELSE IF ~HintIdsAreBytes(a.button_hints)
        THEN Raise("ValueError: byte must be in range(0, 256)")
      ELSE Ok(head \o <<Len(a.supported_buttons)>> \o a.supported_buttons
                \o <<Len(a.button_hints)>> \o HintBytes(a.button_hints))

\* Results of parse_app_info also carry hi, the highest index of data the
\* call has read (-1 when it has read nothing).
POk(v, hi) == [ok |-> TRUE, err |-> "", val |-> v, hi |-> hi]

PRaise(e, hi) == [ok |-> FALSE, err |-> e, val |-> <<>>, hi |-> hi]

\* ReadField without the test of the declared length: the slice is short
ReadFieldUnchecked(data, idx, missing, exceeds) ==
  IF idx >= Len(data) THEN PRaise(missing, idx - 1)
  ELSE LET n == data[idx + 1]
       IN  [ok |-> TRUE, err |-> "",
            val |-> Slice(data, idx + 1, idx + 1 + n),
            idx |-> idx + 1 + n, hi |-> Min(idx + n, Len(data) - 1)]

\* ReadField that takes a field missing at the end of the buffer as empty
ReadFieldLenient(data, idx, missing, exceeds) ==
  IF idx >= Len(data)
  THEN [ok |-> TRUE, err |-> "", val |-> <<>>, idx |-> idx, hi |-> idx - 1]
  ELSE LET n == data[idx + 1]
       IN  IF idx + 1 + n > Len(data) THEN PRaise(exceeds, idx)
           ELSE [ok |-> TRUE, err |-> "",
                 val |-> Slice(data, idx + 1, idx + 1 + n),
                 idx |-> idx + 1 + n, hi |-> idx + n]

\* One length-prefixed field starting at idx: the bounds checks, the read
\* of the prefix and the slice.  idx is the index after the field.
ReadField(data, idx, missing, exceeds) ==
  IF idx >= Len(data) THEN PRaise(missing, idx - 1)
  ELSE LET n == data[idx + 1]
       IN  IF idx + 1 + n > Len(data) THEN PRaise(exceeds, idx)
           ELSE [ok |-> TRUE, err |-> "",
                 val |-> Slice(data, idx + 1, idx + 1 + n),
                 idx |-> idx + 1 + n, hi |-> idx + n]

\* A length-prefixed UTF-8 string field
ReadString(data, idx, missing, exceeds) ==
  LET f == ReadField(data, idx, missing, exceeds)
  IN  IF ~f.ok THEN f
      ELSE LET s == Utf8Decode(f.val)
           IN  IF s.ok THEN [f EXCEPT !.val = s.val]
               ELSE PRaise(s.err, f.hi)

EmptyDict == [k \in {} |-> <<>>]

DictPut(d, k, v) == [x \in (DOMAIN d) \cup {k} |-> IF x = k THEN v ELSE d[x]]

\* ParseHints with the label bounds test off by one: a label that ends
\* with the buffer counts as truncated
RECURSIVE ParseHintsStrict(_, _, _, _)
ParseHintsStrict(data, idx, left, hints) ==
  IF left = 0 THEN POk(hints, idx - 1)
  ELSE IF idx >= Len(data) THEN POk(hints, idx - 1)
  ELSE IF idx + 1 >= Len(data) THEN POk(hints, idx)
  ELSE LET button_id == data[idx + 1]
           label_len == data[idx + 2]
       IN  IF idx + 2 + label_len >= Len(data) THEN POk(hints, idx + 1)
           ELSE LET label == Utf8Decode(Slice(data, idx + 2,
                                              idx + 2 + label_len))
                IN  IF ~label.ok THEN PRaise(label.err, idx + 1 + label_len)
                    ELSE ParseHintsStrict(data, idx + 2 + label_len,
                                          left - 1,
                                          DictPut(hints, button_id,
                                                  label.val))

\* The loop "for _ in range(hint_count)": left is the number of
\* iterations still to run, hints the dict built so far.
RECURSIVE ParseHints(_, _, _, _)
ParseHints(data, idx, left, hints) ==
  IF left = 0 THEN POk(hints, idx - 1)
  ELSE IF idx >= Len(data) THEN POk(hints, idx - 1)
  ELSE IF idx + 1 >= Len(data) THEN POk(hints, idx)
  ELSE LET button_id == data[idx + 1]
           label_len == data[idx + 2]
       IN  IF idx + 2 + label_len > Len(data) THEN POk(hints, idx + 1)
           ELSE LET label == Utf8Decode(Slice(data, idx + 2,
                                              idx + 2 + label_len))
                IN  IF ~label.ok THEN PRaise(label.err, idx + 1 + label_len)
                    ELSE ParseHints(data, idx + 2 + label_len, left - 1,
                                    DictPut(hints, button_id, label.val))

\* AppInfoHeader that accepts every version
AppInfoHeaderAnyVersion(data) ==
  IF Len(data) < 1 THEN PRaise("Invalid message type", -1)
  ELSE IF data[1] # MSG_TYPE_APP_INFO THEN PRaise("Invalid message type", 0)
  ELSE IF Len(data) < 1 + 3 THEN PRaise("App info message too short", 0)
  ELSE POk(<<>>, 1)

\* The checks of the message type, the minimum length and the version
AppInfoHeader(data) ==
  IF Len(data) < 1 THEN PRaise("Invalid message type", -1)
  ELSE IF data[1] # MSG_TYPE_APP_INFO THEN PRaise("Invalid message type", 0)
  ELSE IF Len(data) < 1 + 3 THEN PRaise("App info message too short", 0)
  ELSE IF data[2] # APP_INFO_VERSION
    THEN PRaise("Unsupported app info version", 1)
  ELSE POk(<<>>, 1)

parse_app_info(data) ==
  LET header == AppInfoHeader(data)
  IN  IF ~header.ok THEN header ELSE
    LET dt == ReadString(data, 2, "Missing device type length",
                         "Device type length exceeds buffer")
    IN  IF ~dt.ok THEN dt ELSE
    LET id == ReadString(data, dt.idx, "Missing app ID length",
                         "App ID length exceeds buffer")
    IN  IF ~id.ok THEN id ELSE
    LET ver == ReadString(data, id.idx, "Missing app version length",
                          "App version length exceeds buffer")
    IN  IF ~ver.ok THEN ver ELSE
    LET btn == ReadField(data, ver.idx, "Missing button count",
                         "Button count exceeds buffer")
    IN  IF ~btn.ok THEN btn ELSE
    LET hints == IF btn.idx < Len(data)
                 THEN ParseHints(data, btn.idx + 1, data[btn.idx + 1],
                                 EmptyDict)
                 ELSE POk(EmptyDict, btn.hi)
    IN  IF ~hints.ok THEN hints
        ELSE POk([device_type |-> dt.val,
                  app_id |-> id.val,
                  app_version |-> ver.val,
                  supported_buttons |-> btn.val,
                  button_hints |-> hints.val],
                 IF hints.hi > btn.hi THEN hints.hi ELSE btn.hi)

(***************************************************************************)
(* Inputs.  A caller passes a value to an encoder (pc = "call"), or a      *)
(* transport hands a received buffer to a parser (pc = "recv").            *)
(***************************************************************************)
SeqUpTo(S, n) == UNION {[1..k -> S] : k \in 0..n}

\* argument values in and out of the byte range
ArgVals == {-1, 0, 1, 255, 256}

\* bytes of received buffers: tags, small lengths, 'A', a byte that is
\* never valid UTF-8 and is the largest length
RawBytes == {0, 1, 2, 4, 65, 255}

RawBufs == SeqUpTo(RawBytes, MaxRaw)

AppBodies == {<<MSG_TYPE_APP_INFO, APP_INFO_VERSION>> \o b :
                b \in SeqUpTo(RawBytes, MaxBody)}

Pad(n) == [i \in 1..n |-> 97]

StrApp == <<97, 112, 112>>

StrController == <<99, 111, 110, 116, 114, 111, 108, 108, 101, 114>>

EAcute == <<233>>

\* 33 bytes of UTF-8 whose 32nd byte starts a two-byte character
StrCut == Pad(MAX_STR_BYTES - 1) \o EAcute

\* exactly 32 bytes of UTF-8 ending in a two-byte character
StrFull == Pad(MAX_STR_BYTES - 2) \o EAcute

DeviceTypes == {StrApp, StrController, StrCut}

AppIds == {<<>>, EAcute, Pad(LongLen)}

AppVersions == {<<65>>, StrFull}

ButtonIds == {1, 32}

HintIds == {32, 64}

Labels == {<<>>, EAcute}

\* the items of a dict: no button id twice
HintItems ==
  {h \in SeqUpTo(HintIds \X Labels, Cardinality(HintIds)) :
     \A i, j \in 1..Len(h) : i # j => h[i][1] # h[j][1]}

AppInfos ==
  [device_type : DeviceTypes, app_id : AppIds, app_version : AppVersions,
   supported_buttons : SeqUpTo(ButtonIds, MaxButtons),
   button_hints : HintItems \cup {<<(<<32, Pad(LongLen)>>)>>,
                                  <<(<<64, StrCut>>)>>}]

\* more entries than a count byte can hold, and an id that is no byte
BigAppInfos ==
  {[device_type |-> StrApp, app_id |-> <<>>, app_version |-> <<65>>,
    supported_buttons |-> [i \in 1..n |-> 1],
    button_hints |-> [i \in 1..m |-> <<i - 1, <<>>>>]] :
      n \in {0, 255, 256}, m \in {0, 256}}
  \cup
  {[device_type |-> StrApp, app_id |-> <<>>, app_version |-> <<65>>,
    supported_buttons |-> <<b>>, button_hints |-> <<(<<h, <<>>>>)>>] :
      b \in ArgVals, h \in ArgVals}

\* A buffer with a complete mandatory part, a hint count, some complete
\* hints and an incomplete rest
MandatoryParts ==
  {<<MSG_TYPE_APP_INFO, APP_INFO_VERSION, 0, 0, 0, 0>>,
   <<MSG_TYPE_APP_INFO, APP_INFO_VERSION, 1, 65, 0, 1, 65, 1, 2>>}

LabelBytes == {<<>>, <<65>>, <<255>>}

RawHints == SeqUpTo(HintIds \X LabelBytes, 2)

HintTails == {<<>>, <<32>>, <<32, 2>>, <<32, 2, 65>>}

RECURSIVE RawHintBytes(_)
RawHintBytes(h) ==
  IF h = <<>> THEN <<>>
  ELSE <<Head(h)[1], Len(Head(h)[2])>> \o Head(h)[2] \o RawHintBytes(Tail(h))

TruncatedHints ==
  [kind : {"hints"}, mand : MandatoryParts, complete : RawHints,
   extra : {1, 2}, tail : HintTails]

HintsBuffer(a) ==
  a.mand \o <<Len(a.complete) + a.extra>> \o RawHintBytes(a.complete)
    \o a.tail

Batteries == {<<>>} \cup {<<b>> : b \in ArgVals \cup {100, 101}}

PatternArgs == PatternNames \cup {"bogus"}

HapticArgs == ArgVals \cup {20, 128}

HapticBytes == {0, 1, 3, 7, 8, 255}

\* button ids with a name, with an enum and without a name
FormatIds == {1, 16, 32, 64, 96, 255}

\* the buttons of simulate_buttons_loop, and the states of a press, of a
\* release and of an analog value
BleButtonIds == {1, 2, 20, 32}

BleStates == {0, 1, 255}

\* the default supported_buttons of ble_trainer_app.send_app_info
BleDefaultButtons == <<1, 2, 16, 17, 18, 19, 20, 21, 32, 33, 48, 49, 50, 51, 52>>

BleAppIds == AppIds \cup {StrApp, StrCut}

\* 200 is no UTF-8 start byte
BleButtonLists == SeqUpTo(ButtonIds \cup {200}, MaxButtons) \cup {BleDefaultButtons}

BleAppInfos ==
  [app_id : BleAppIds, app_version : AppVersions,
   supported_buttons : BleButtonLists]

HapticBufs == SeqUpTo(HapticBytes, MaxRaw)

\* no TCP connection
NoTcp ==
  /\ astart = "none"
  /\ apc = "none"
  /\ amsg = 0
  /\ aexit = ""
  /\ toApp = <<>>
  /\ toDev = <<>>
  /\ decoded = <<>>
  /\ sent = <<>>
  /\ dpc = 0
  /\ dev = "none"

\* no handle_client
\* no WebSocket connection
NoWs ==
  /\ wpc = "none"
  /\ wtask = "none"
  /\ wclients = FALSE
  /\ wscript = <<>>
  /\ wpos = 0
  /\ wconn = "none"
  /\ wsent = <<>>
  /\ wdpc = 0

NoHandler ==
  /\ hpc = "none"
  /\ hmsg = 0
  /\ hhdr = <<>>
  /\ reported = <<>>
  /\ btask = "none"
  /\ clients = FALSE
  /\ wclosed = FALSE
  /\ script = <<>>
  /\ cpos = 0
  /\ conn = "none"

Init ==
  /\ NoWs
  /\ NoTcp
  /\ NoHandler
  /\ res = NoResult
  /\ \/ /\ pc = "call"
        /\ wire = <<>>
        /\ \/ /\ op = "button_state"
              /\ arg \in [kind : {"value"},
                          v : SeqUpTo(ArgVals \X ArgVals, MaxEvents)]
           \/ /\ op = "app_info"
              /\ arg \in [kind : {"value"}, v : AppInfos \cup BigAppInfos]
           \/ /\ op = "device_status"
              /\ arg \in [kind : {"value"},
                          v : [battery : Batteries, connected : BOOLEAN]]
           \/ /\ op = "haptic_feedback"
              /\ arg \in [kind : {"value"},
                          v : [pattern : PatternArgs, duration : HapticArgs,
                               intensity : HapticArgs]]
           \/ /\ op = "ble_haptic"
              /\ arg \in [kind : {"value"},
                          v : [pattern : PatternArgs, duration : HapticArgs,
                               intensity : HapticArgs]]
           \/ /\ op = "ble_button"
              /\ arg \in [kind : {"value"},
                          v : [button_id : BleButtonIds, state : BleStates]]
           \/ /\ op = "format"
              /\ arg \in [kind : {"value"},
                          v : [button_id : FormatIds, state : 0..255]]
           \/ /\ op = "ble_app_info"
              /\ arg \in [kind : {"value"}, v : BleAppInfos]
     \/ /\ pc = "recv"
        /\ \/ /\ op = "button_state"
              /\ arg = [kind |-> "raw"]
              /\ wire \in RawBufs
           \/ /\ op = "app_info"
              /\ arg = [kind |-> "raw"]
              /\ wire \in RawBufs \cup AppBodies
           \/ /\ op = "device_status"
              /\ arg = [kind |-> "raw"]
              /\ wire \in RawBufs
           \/ /\ op = "haptic_feedback"
              /\ arg = [kind |-> "raw"]
              /\ wire \in HapticBufs
           \/ /\ op = "decoders"
              /\ arg = [kind |-> "raw"]
              /\ wire \in RawBufs
           \/ /\ op = "app_info"
              /\ arg \in TruncatedHints
              /\ wire = HintsBuffer(arg)

(***************************************************************************)
(* Calls.  An encoder's result goes on the wire, or the call raises.       *)
(***************************************************************************)
Encoded(r) ==
  IF r.ok
  THEN /\ wire' = r.val
       /\ pc' = "sent"
       /\ res' = res
  ELSE /\ res' = r
       /\ pc' = "raised"
       /\ wire' = wire

CallEncodeButtonState ==
  /\ UNCHANGED wsvars
  /\ pc = "call"
  /\ op = "button_state"
  /\ Encoded(encode_button_state(arg.v))
  /\ UNCHANGED <<op, arg, tcpvars, hcvars>>

CallEncodeDeviceStatus ==
  /\ UNCHANGED wsvars
  /\ pc = "call"
  /\ op = "device_status"
  /\ Encoded(encode_device_status(arg.v.battery, arg.v.connected))
  /\ UNCHANGED <<op, arg, tcpvars, hcvars>>

CallEncodeHapticFeedback ==
  /\ UNCHANGED wsvars
  /\ pc = "call"
  /\ op = "haptic_feedback"
  /\ Encoded(encode_haptic_feedback(arg.v.pattern, arg.v.duration,
                                    arg.v.intensity))
  /\ UNCHANGED <<op, arg, tcpvars, hcvars>>

CallEncodeAppInfo ==
  /\ UNCHANGED wsvars
  /\ pc = "call"
  /\ op = "app_info"
  /\ Encoded(encode_app_info(arg.v))
  /\ UNCHANGED <<op, arg, tcpvars, hcvars>>

\* reader.read(n) returns at most n bytes: the handler may hand a prefix
\* of the message that was sent to the parser
ReceivePrefix ==
  /\ UNCHANGED wsvars
  /\ pc = "sent"
  /\ op = "app_info"
  /\ \E k \in 0..(Len(wire) - 1) : wire' = SubSeq(wire, 1, k)
  /\ pc' = "recv"
  /\ arg' = [arg EXCEPT !.kind = "prefix"]
  /\ UNCHANGED <<op, res, tcpvars, hcvars>>

CallParseButtonState ==
  /\ UNCHANGED wsvars
  /\ pc \in {"sent", "recv"}
  /\ op = "button_state"
  /\ res' = parse_button_state(wire)
  /\ pc' = "done"
  /\ UNCHANGED <<op, arg, wire, tcpvars, hcvars>>

CallParseAppInfo ==
  /\ UNCHANGED wsvars
  /\ pc \in {"sent", "recv"}
  /\ op = "app_info"
  /\ res' = parse_app_info(wire)
  /\ pc' = "done"
  /\ UNCHANGED <<op, arg, wire, tcpvars, hcvars>>

CallParseDeviceStatus ==
  /\ UNCHANGED wsvars
  /\ pc \in {"sent", "recv"}
  /\ op = "device_status"
  /\ res' = parse_device_status(wire)
  /\ pc' = "done"
  /\ UNCHANGED <<op, arg, wire, tcpvars, hcvars>>

CallParseHapticFeedback ==
  /\ UNCHANGED wsvars
  /\ pc \in {"sent", "recv"}
  /\ op = "haptic_feedback"
  /\ res' = parse_haptic_feedback(wire)
  /\ pc' = "done"
  /\ UNCHANGED <<op, arg, wire, tcpvars, hcvars>>

\* ble_trainer_app.send_haptic_feedback: the command goes to the haptic
\* characteristic as it is
BleSendHapticFeedback ==
  /\ UNCHANGED wsvars
  /\ pc = "call"
  /\ op = "ble_haptic"
  /\ Encoded(ble_send_haptic_feedback(arg.v.pattern, arg.v.duration,
                                      arg.v.intensity))
  /\ UNCHANGED <<op, arg, tcpvars, hcvars>>

\* MockBLEDevice._haptic_write_callback: an exception of the parser is
\* caught and printed
BleHapticWriteCallback ==
  /\ UNCHANGED wsvars
  /\ pc = "sent"
  /\ op = "ble_haptic"
  /\ res' = parse_haptic_feedback(wire)
  /\ pc' = "done"
  /\ UNCHANGED <<op, arg, wire, tcpvars, hcvars>>

\* MockBLEDevice.update_button_state with a running server: the value of
\* the button-state characteristic is notified
BleUpdateButtonState ==
  /\ UNCHANGED wsvars
  /\ pc = "call"
  /\ op = "ble_button"
  /\ Encoded(encode_button_state(<<(<<arg.v.button_id, arg.v.state>>)>>))
  /\ UNCHANGED <<op, arg, tcpvars, hcvars>>

\* the notification callback of ble_trainer_app.button_state_callback
BleButtonStateCallback ==
  /\ UNCHANGED wsvars
  /\ pc = "sent"
  /\ op = "ble_button"
  /\ LET buttons == ble_parse_button_state(wire)
     IN  res' = Ok([buttons |-> buttons, written |-> BleHapticWrites(buttons)])
  /\ pc' = "done"
  /\ UNCHANGED <<op, arg, wire, tcpvars, hcvars>>

\* ble_trainer_app.send_app_info writes the older layout
BleSendAppInfo ==
  /\ UNCHANGED wsvars
  /\ pc = "call"
  /\ op = "ble_app_info"
  /\ Encoded(ble_send_app_info(arg.v))
  /\ UNCHANGED <<op, arg, tcpvars, hcvars>>

\* MockBLEDevice._app_info_write_callback: the written value goes to the
\* parser as it is; an exception of the parser is caught and printed
BleAppInfoWriteCallback ==
  /\ UNCHANGED wsvars
  /\ pc = "sent"
  /\ op = "ble_app_info"
  /\ arg.kind = "value"
  /\ res' = parse_app_info(wire)
  /\ pc' = "done"
  /\ UNCHANGED <<op, arg, wire, tcpvars, hcvars>>

\* the same message behind the tag byte: the TCP device hands
\* msg_type_data + header + remaining to the parser
FramedAppInfoReceived ==
  /\ UNCHANGED wsvars
  /\ pc = "sent"
  /\ op = "ble_app_info"
  /\ arg.kind = "value"
  /\ wire' = <<MSG_TYPE_APP_INFO>> \o wire
  /\ arg' = [arg EXCEPT !.kind = "framed"]
  /\ res' = parse_app_info(<<MSG_TYPE_APP_INFO>> \o wire)
  /\ pc' = "done"
  /\ UNCHANGED <<op, tcpvars, hcvars>>

\* the bytes after the message type go to the decoder of the BLE trainer
\* app, the same bytes behind the message type to the one of
\* protocol_parser
CallBothDecoders ==
  /\ UNCHANGED wsvars
  /\ pc = "recv"
  /\ op = "decoders"
  /\ res' = Ok([framed |->
                  parse_button_state(<<MSG_TYPE_BUTTON_STATE>> \o wire).val,
                unframed |-> ble_parse_button_state(wire)])
  /\ pc' = "done"
  /\ UNCHANGED <<op, arg, wire, tcpvars, hcvars>>

CallFormatButtonState ==
  /\ UNCHANGED wsvars
  /\ pc = "call"
  /\ op = "format"
  /\ res' = Ok(format_button_state(arg.v.button_id, arg.v.state))
  /\ pc' = "done"
  /\ UNCHANGED <<op, arg, wire, tcpvars, hcvars>>

Next ==
  \/ CallEncodeButtonState
  \/ CallEncodeDeviceStatus
  \/ CallEncodeHapticFeedback
  \/ CallEncodeAppInfo
  \/ ReceivePrefix
  \/ CallParseButtonState
  \/ CallParseAppInfo
  \/ CallParseDeviceStatus
  \/ CallParseHapticFeedback
  \/ BleSendHapticFeedback
  \/ BleHapticWriteCallback
  \/ BleUpdateButtonState
  \/ BleButtonStateCallback
  \/ CallFormatButtonState
  \/ BleSendAppInfo
  \/ BleAppInfoWriteCallback
  \/ FramedAppInfoReceived
  \/ CallBothDecoders

Spec == Init /\ [][Next]_vars

(***************************************************************************)
(* The TCP trainer app and the mock TCP device.                            *)
(*                                                                         *)
(* reader.read(n) returns between 1 and n of the bytes that have arrived,  *)
(* waits while there is none and the peer is open, and returns b'' when    *)
(* there is none and the peer has closed.                                  *)
(***************************************************************************)
encode_haptic_feedback_params == {"pattern", "duration", "intensity"}

encode_app_info_params ==
  {"app_id", "app_version", "supported_buttons", "device_type",
   "button_hints"}

\* a Python call: a keyword that names no parameter raises TypeError, and
\* the function body does not run
CallWithKeywords(params, keywords, result) ==
  IF keywords \subseteq params THEN result
  ELSE Raise("TypeError: got an unexpected keyword argument")

\* "example-trainer-app" and "1.0.0"
ExampleAppId ==
  <<101, 120, 97, 109, 112, 108, 101, 45, 116, 114, 97, 105, 110, 101, 114,
    45, 97, 112, 112>>

ExampleAppVersion == <<49, 46, 48, 46, 48>>

DefaultSupportedButtons ==
  <<1, 2, 16, 17, 18, 19, 20, 21, 32, 33, 48, 49, 50, 51, 52>>

\* message = encode_app_info(app_id, app_version, supported_buttons,
\*                           include_msg_type=True) of send_app_info
AppInfoMessage ==
  CallWithKeywords(encode_app_info_params, {"include_msg_type"},
    encode_app_info([device_type |-> StrApp, app_id |-> ExampleAppId,
                     app_version |-> ExampleAppVersion,
                     supported_buttons |-> DefaultSupportedButtons,
                     button_hints |-> <<>>]))

\* message = encode_haptic_feedback(pattern, duration, intensity,
\*                                  include_msg_type=True) of
\* send_haptic_feedback
HapticMessage(pattern, duration, intensity) ==
  CallWithKeywords(encode_haptic_feedback_params, {"include_msg_type"},
    encode_haptic_feedback(pattern, duration, intensity))

\* the loop of handle_button_state_message: send_haptic_feedback(writer,
\* "short") for every pair whose state is 1.  val is what was written; an
\* exception of send_haptic_feedback ends the loop.
RECURSIVE HapticReplies(_)
HapticReplies(buttons) ==
  IF buttons = <<>> THEN Ok(<<>>)
  ELSE IF Head(buttons)[2] # 1 THEN HapticReplies(Tail(buttons))
  ELSE LET message == HapticMessage("short", 0, 0)
       IN  IF ~message.ok THEN message
           ELSE LET rest == HapticReplies(Tail(buttons))
                IN  [rest EXCEPT !.val = message.val \o rest.val]

DEVICE_BATTERY == 85

\* button_sequence of handle_client without the delays: <<button_id>> is
\* a digital button, <<button_id, value>> an analog one
button_sequence == <<(<<1>>), (<<2>>), (<<20>>), (<<32, 1>>), (<<64, 0>>)>>

\* the events simulate_buttons writes, one message each: a press and a
\* release for a digital button, the value for an analog one
RECURSIVE ScriptEvents(_)
ScriptEvents(items) ==
  IF items = <<>> THEN <<>>
  ELSE (IF Len(Head(items)) = 1
        THEN <<(<<Head(items)[1], 1>>), (<<Head(items)[1], 0>>)>>
        ELSE <<(<<Head(items)[1], Head(items)[2]>>)>>)
       \o ScriptEvents(Tail(items))

DeviceEvents == ScriptEvents(button_sequence)

Drop(s, k) == SubSeq(s, k + 1, Len(s))

AtEof == toApp = <<>> /\ dev = "closed"

\* the app is in connect_and_monitor with the connection open, or in
\* read_tcp_messages on an open connection; the device has accepted the
\* connection
InitTcp ==
  /\ NoWs
  /\ NoHandler
  /\ pc = "tcp"
  /\ op = "tcp"
  /\ arg = [kind |-> "none"]
  /\ wire = <<>>
  /\ res = NoResult
  /\ astart \in {"connect_and_monitor", "read_tcp_messages"}
  /\ apc = (IF astart = "connect_and_monitor" THEN "connected"
            ELSE "read_type")
  /\ amsg = 0
  /\ aexit = ""
  /\ toApp = <<>>
  /\ toDev = <<>>
  /\ decoded = <<>>
  /\ sent = <<>>
  /\ dpc = 0
  /\ dev = "serving"

\* connect_and_monitor after open_connection: await send_app_info(writer).
\* An exception of send_app_info is caught by "except Exception", the
\* function returns 1 and its finally clause closes the writer.
AppSendAppInfo ==
  /\ UNCHANGED wsvars
  /\ apc = "connected"
  /\ LET message == AppInfoMessage
     IN  IF message.ok
         THEN /\ toDev' = toDev \o message.val
              /\ apc' = "read_type"
              /\ aexit' = aexit
         ELSE /\ toDev' = toDev
              /\ apc' = "closed"
              /\ aexit' = message.err
  /\ UNCHANGED <<codecvars, hcvars, astart, amsg, toApp, decoded, sent, dpc, dev>>

\* msg_type_data = await reader.read(1)
AppReadType ==
  /\ UNCHANGED wsvars
  /\ apc = "read_type"
  /\ \/ /\ toApp # <<>>
        /\ amsg' = Head(toApp)
        /\ toApp' = Tail(toApp)
        /\ apc' = (IF amsg' = MSG_TYPE_BUTTON_STATE THEN "read_chunk"
                   ELSE IF amsg' = MSG_TYPE_DEVICE_STATUS THEN "read_status"
                   ELSE "read_skip")
        /\ aexit' = aexit
     \/ /\ AtEof
        /\ apc' = "returned"
        /\ aexit' = "eof"
        /\ UNCHANGED <<amsg, toApp>>
  /\ UNCHANGED <<codecvars, hcvars, astart, toDev, decoded, sent, dpc, dev>>

\* chunk = await reader.read(128), then handle_button_state_message.  An
\* exception is caught by "except Exception" of read_tcp_messages, which
\* returns.
AppReadChunk ==
  /\ UNCHANGED wsvars
  /\ apc = "read_chunk"
  /\ \/ \E k \in 1..Min(128, Len(toApp)) :
          LET full_message == <<amsg>> \o SubSeq(toApp, 1, k)
              buttons == parse_button_state(full_message).val
              replies == HapticReplies(buttons)
          IN  /\ toApp' = Drop(toApp, k)
              /\ decoded' = decoded \o buttons
              /\ toDev' = toDev \o replies.val
              /\ apc' = (IF replies.ok THEN "read_type" ELSE "returned")
              /\ aexit' = (IF replies.ok THEN aexit ELSE replies.err)
     \/ /\ AtEof
        /\ apc' = "returned"
        /\ aexit' = "eof"
        /\ UNCHANGED <<toApp, decoded, toDev>>
  /\ UNCHANGED <<codecvars, hcvars, astart, amsg, sent, dpc, dev>>

\* status_data = await reader.read(2), then handle_device_status_message
AppReadStatus ==
  /\ UNCHANGED wsvars
  /\ apc = "read_status"
  /\ \/ \E k \in 1..Min(2, Len(toApp)) :
          LET status_data == SubSeq(toApp, 1, k)
              status == parse_device_status(<<amsg>> \o status_data)
          IN  /\ toApp' = Drop(toApp, k)
              /\ IF Len(status_data) < 2
                 THEN apc' = "returned" /\ aexit' = "short read"
                 ELSE IF status.ok
                   THEN apc' = "read_type" /\ aexit' = aexit
                 ELSE apc' = "returned" /\ aexit' = status.err
     \/ /\ AtEof
        /\ apc' = "returned"
        /\ aexit' = "eof"
        /\ toApp' = toApp
  /\ UNCHANGED <<codecvars, hcvars, astart, amsg, toDev, decoded, sent, dpc, dev>>

\* an unknown message type: await reader.read(64), the bytes are dropped
AppReadSkip ==
  /\ UNCHANGED wsvars
  /\ apc = "read_skip"
  /\ \/ \E k \in 1..Min(64, Len(toApp)) : toApp' = Drop(toApp, k)
     \/ AtEof /\ toApp' = toApp
  /\ apc' = "read_type"
  /\ UNCHANGED <<codecvars, hcvars, astart, amsg, aexit, toDev, decoded, sent, dpc,
                 dev>>

\* read_tcp_messages has returned: the finally clause of
\* connect_and_monitor closes the writer
AppClose ==
  /\ UNCHANGED wsvars
  /\ apc = "returned"
  /\ apc' = "closed"
  /\ UNCHANGED <<codecvars, hcvars, astart, amsg, aexit, toApp, toDev, decoded, sent,
                 dpc, dev>>

\* handle_client: writer.write(device.get_status_message())
DevSendStatus ==
  /\ UNCHANGED wsvars
  /\ dev = "serving"
  /\ dpc = 0
  /\ toApp' = toApp \o encode_device_status(<<DEVICE_BATTERY>>, TRUE).val
  /\ dpc' = 1
  /\ UNCHANGED <<codecvars, hcvars, astart, apc, amsg, aexit, toDev, decoded, sent,
                 dev>>

\* simulate_buttons: the next message of the sequence is written; what is
\* written after the app has closed reaches nobody
DevSendButton ==
  /\ UNCHANGED wsvars
  /\ dev = "serving"
  /\ dpc \in 1..Len(DeviceEvents)
  /\ LET event == DeviceEvents[dpc]
     IN  /\ toApp' = (IF apc = "closed" THEN toApp
                      ELSE toApp \o encode_button_state(<<event>>).val)
         /\ sent' = sent \o <<event>>
  /\ dpc' = dpc + 1
  /\ UNCHANGED <<codecvars, hcvars, astart, apc, amsg, aexit, toDev, decoded, dev>>

\* handle_client: reader.read(1) returns b'' once the app has closed; the
\* finally clause cancels simulate_buttons and closes the writer
DevHangUp ==
  /\ UNCHANGED wsvars
  /\ dev = "serving"
  /\ dpc >= 1
  /\ apc = "closed"
  /\ dev' = "closed"
  /\ UNCHANGED <<codecvars, hcvars, astart, apc, amsg, aexit, toApp, toDev, decoded,
                 sent, dpc>>

\* handle_client is cancelled when the server stops: "except
\* asyncio.CancelledError: pass", then the finally clause
DevCancel ==
  /\ UNCHANGED wsvars
  /\ dev = "serving"
  /\ dpc >= 1
  /\ apc # "closed"
  /\ dev' = "closed"
  /\ UNCHANGED <<codecvars, hcvars, astart, apc, amsg, aexit, toApp, toDev, decoded,
                 sent, dpc>>

NextTcp ==
  \/ AppSendAppInfo
  \/ AppReadType
  \/ AppReadChunk
  \/ AppReadStatus
  \/ AppReadSkip
  \/ AppClose
  \/ DevSendStatus
  \/ DevSendButton
  \/ DevHangUp
  \/ DevCancel

SpecTcp == InitTcp /\ [][NextTcp]_vars

(***************************************************************************)
(* handle_client of the mock TCP device, with a client that writes the     *)
(* messages of a script, may close the connection and may be lost.         *)
(***************************************************************************)
\* what a client may write: a haptic command, an app info message and a
\* message of an unknown type
ClientHaptic == encode_haptic_feedback("short", 0, 0).val

ClientAppInfo ==
  encode_app_info([device_type |-> StrApp, app_id |-> <<>>,
                   app_version |-> <<65>>, supported_buttons |-> <<>>,
                   button_hints |-> <<>>]).val

ClientUnknown == <<9, 0>>

ClientMessages == {ClientHaptic, ClientAppInfo, ClientUnknown}

ClientScripts == SeqUpTo(ClientMessages, MaxMsgs)

\* for every event of simulate_buttons, TRUE when "if writer.is_closing():
\* break" comes before its write: the release of a digital button has none
RECURSIVE ScriptChecks(_)
ScriptChecks(items) ==
  IF items = <<>> THEN <<>>
  ELSE (IF Len(Head(items)) = 1 THEN <<TRUE, FALSE>> ELSE <<TRUE>>)
       \o ScriptChecks(Tail(items))

DeviceChecks == ScriptChecks(button_sequence)

InitDev ==
  /\ NoWs
  /\ NoTcp
  /\ pc = "dev"
  /\ op = "dev"
  /\ arg = [kind |-> "none"]
  /\ wire = <<>>
  /\ res = NoResult
  /\ hpc = "start"
  /\ hmsg = 0
  /\ hhdr = <<>>
  /\ reported = <<>>
  /\ btask = "none"
  /\ clients = FALSE
  /\ wclosed = FALSE
  /\ script \in ClientScripts
  /\ cpos = 0
  /\ conn = "open"

\* the finally clause of handle_client: with a button task, cancel it and
\* await it, which raises what the task has raised, except that a
\* CancelledError is passed over; then connected_clients.discard(writer)
\* and writer.close()
Finally(has_task) ==
  IF has_task /\ btask = "failed"
  THEN /\ hpc' = "aborted"
       /\ UNCHANGED <<btask, clients, wclosed>>
  ELSE /\ hpc' = "finished"
       /\ btask' = (IF btask = "running" THEN "cancelled" ELSE btask)
       /\ clients' = FALSE
       /\ wclosed' = TRUE

\* reader.read(n) has no data and returns b''
DevEof == toDev = <<>> /\ conn = "eof"

\* reader.read(n) and writer.drain() raise once the connection is lost
DevLost == conn = "reset"

\* connected_clients.add(writer), the initial status, and the start of the
\* button task
HcStart ==
  /\ UNCHANGED wsvars
  /\ hpc = "start"
  /\ IF DevLost
     THEN /\ hpc' = "finished"
          /\ clients' = FALSE
          /\ wclosed' = TRUE
          /\ UNCHANGED <<btask, toApp, dpc>>
     ELSE /\ hpc' = "read_type"
          /\ clients' = TRUE
          /\ toApp' = toApp \o encode_device_status(<<DEVICE_BATTERY>>,
                                                     TRUE).val
          /\ dpc' = 1
          /\ btask' = "running"
          /\ wclosed' = wclosed
  /\ UNCHANGED <<codecvars, astart, apc, amsg, aexit, toDev, decoded, sent,
                 dev, hmsg, hhdr, reported, script, cpos, conn>>

\* msg_type_data = await reader.read(1)
HcReadType ==
  /\ UNCHANGED wsvars
  /\ hpc = "read_type"
  /\ \/ /\ ~DevLost
        /\ toDev # <<>>
        /\ hmsg' = Head(toDev)
        /\ toDev' = Tail(toDev)
        /\ hpc' = (IF hmsg' = MSG_TYPE_HAPTIC_FEEDBACK THEN "read_haptic"
                   ELSE IF hmsg' = MSG_TYPE_APP_INFO THEN "read_header"
                   ELSE "read_skip")
        /\ UNCHANGED <<btask, clients, wclosed>>
     \/ /\ DevEof \/ DevLost
        /\ Finally(TRUE)
        /\ UNCHANGED <<hmsg, toDev>>
  /\ UNCHANGED <<codecvars, astart, apc, amsg, aexit, toApp, decoded, sent,
                 dpc, dev, hhdr, reported, script, cpos, conn>>

\* haptic_data = await reader.read(3); fewer than 3 bytes end the loop; an
\* exception of the parser is caught and printed
HcReadHaptic ==
  /\ UNCHANGED wsvars
  /\ hpc = "read_haptic"
  /\ \/ /\ ~DevLost
        /\ \E k \in 1..Min(3, Len(toDev)) :
             LET haptic_data == SubSeq(toDev, 1, k)
                 haptic_info == parse_haptic_feedback(<<hmsg>> \o haptic_data)
             IN  /\ toDev' = Drop(toDev, k)
                 /\ IF Len(haptic_data) < 3
                    THEN Finally(TRUE) /\ reported' = reported
                    ELSE /\ hpc' = "read_type"
                         /\ reported' =
                              (IF haptic_info.ok
                               THEN Append(reported, haptic_info.val.pattern)
                               ELSE reported)
                         /\ UNCHANGED <<btask, clients, wclosed>>
     \/ /\ DevEof \/ DevLost
        /\ Finally(TRUE)
        /\ UNCHANGED <<toDev, reported>>
  /\ UNCHANGED <<codecvars, astart, apc, amsg, aexit, toApp, decoded, sent,
                 dpc, dev, hmsg, hhdr, script, cpos, conn>>

\* header = await reader.read(3); fewer than 2 bytes end the loop
HcReadHeader ==
  /\ UNCHANGED wsvars
  /\ hpc = "read_header"
  /\ \/ /\ ~DevLost
        /\ \E k \in 1..Min(3, Len(toDev)) :
             /\ toDev' = Drop(toDev, k)
             /\ hhdr' = SubSeq(toDev, 1, k)
             /\ IF k < 2
                THEN Finally(TRUE)
                ELSE hpc' = "read_remaining"
                     /\ UNCHANGED <<btask, clients, wclosed>>
     \/ /\ DevEof \/ DevLost
        /\ Finally(TRUE)
        /\ UNCHANGED <<toDev, hhdr>>
  /\ UNCHANGED <<codecvars, astart, apc, amsg, aexit, toApp, decoded, sent,
                 dpc, dev, hmsg, reported, script, cpos, conn>>

\* remaining = await reader.read(app_id_len + 1 + 32 + 1 + 255) with
\* app_id_len = header[1], then parse_app_info(full_message), whose
\* exception is caught and printed
HcReadRemaining ==
  /\ UNCHANGED wsvars
  /\ hpc = "read_remaining"
  /\ \/ /\ ~DevLost
        /\ \/ \E k \in 1..Min(hhdr[2] + 1 + 32 + 1 + 255, Len(toDev)) :
                toDev' = Drop(toDev, k)
           \/ DevEof /\ toDev' = toDev
        /\ hpc' = "read_type"
        /\ UNCHANGED <<btask, clients, wclosed>>
     \/ /\ DevLost
        /\ Finally(TRUE)
        /\ toDev' = toDev
  /\ UNCHANGED <<codecvars, astart, apc, amsg, aexit, toApp, decoded, sent,
                 dpc, dev, hmsg, hhdr, reported, script, cpos, conn>>

\* an unknown message type: await reader.read(64), the bytes are dropped
HcReadSkip ==
  /\ UNCHANGED wsvars
  /\ hpc = "read_skip"
  /\ \/ /\ ~DevLost
        /\ \/ \E k \in 1..Min(64, Len(toDev)) : toDev' = Drop(toDev, k)
           \/ DevEof /\ toDev' = toDev
        /\ hpc' = "read_type"
        /\ UNCHANGED <<btask, clients, wclosed>>
     \/ /\ DevLost
        /\ Finally(TRUE)
        /\ toDev' = toDev
  /\ UNCHANGED <<codecvars, astart, apc, amsg, aexit, toApp, decoded, sent,
                 dpc, dev, hmsg, hhdr, reported, script, cpos, conn>>

\* handle_client is cancelled while it waits in a read: "except
\* asyncio.CancelledError: pass", then the finally clause
HcCancelled ==
  /\ UNCHANGED wsvars
  /\ hpc \in {"read_type", "read_haptic", "read_header", "read_remaining",
              "read_skip"}
  /\ Finally(TRUE)
  /\ UNCHANGED <<codecvars, tcpvars, hmsg, hhdr, reported, script, cpos,
                 conn>>

\* simulate_buttons writes its next message and drains.  On a lost
\* connection the drain raises and the task ends with that exception,
\* unless the test of writer.is_closing() ended the loop before.
BtnSend ==
  /\ UNCHANGED wsvars
  /\ btask = "running"
  /\ dpc \in 1..Len(DeviceEvents)
  /\ IF DevLost
     THEN /\ \/ btask' = "failed"
             \/ DeviceChecks[dpc] /\ btask' = "done"
          /\ UNCHANGED <<toApp, sent, dpc>>
     ELSE /\ toApp' = toApp \o encode_button_state(<<DeviceEvents[dpc]>>).val
          /\ sent' = Append(sent, DeviceEvents[dpc])
          /\ dpc' = dpc + 1
          /\ btask' = (IF dpc = Len(DeviceEvents) THEN "done" ELSE "running")
  /\ UNCHANGED <<codecvars, astart, apc, amsg, aexit, toDev, decoded, dev,
                 hpc, hmsg, hhdr, reported, clients, wclosed, script, cpos,
                 conn>>

ClientSend ==
  /\ UNCHANGED wsvars
  /\ conn = "open"
  /\ cpos < Len(script)
  /\ toDev' = toDev \o script[cpos + 1]
  /\ cpos' = cpos + 1
  /\ UNCHANGED <<codecvars, astart, apc, amsg, aexit, toApp, decoded, sent,
                 dpc, dev, hpc, hmsg, hhdr, reported, btask, clients, wclosed,
                 script, conn>>

ClientClose ==
  /\ UNCHANGED wsvars
  /\ conn = "open"
  /\ conn' = "eof"
  /\ UNCHANGED <<codecvars, tcpvars, hpc, hmsg, hhdr, reported, btask,
                 clients, wclosed, script, cpos>>

ClientLost ==
  /\ UNCHANGED wsvars
  /\ conn \in {"open", "eof"}
  /\ conn' = "reset"
  /\ UNCHANGED <<codecvars, tcpvars, hpc, hmsg, hhdr, reported, btask,
                 clients, wclosed, script, cpos>>

NextDev ==
  \/ HcStart
  \/ HcReadType
  \/ HcReadHaptic
  \/ HcReadHeader
  \/ HcReadRemaining
  \/ HcReadSkip
  \/ HcCancelled
  \/ BtnSend
  \/ ClientSend
  \/ ClientClose
  \/ ClientLost

SpecDev == InitDev /\ [][NextDev]_vars

(***************************************************************************)
(* websocket_handler of the mock WebSocket device (mock_device.py), with a *)
(* client that sends the frames of a script, may close the connection and  *)
(* may be lost.  A handler that is cancelled gets a CancelledError at the  *)
(* await it is suspended in.                                               *)
(***************************************************************************)
WS_BATTERY == 85

\* MockDevice.get_status_message, without the timestamp
ws_get_status_message ==
  [type |-> "device_status", battery |-> WS_BATTERY, connected |-> TRUE]

\* one of the two messages of MockDevice.simulate_button_press, without
\* the timestamp
ws_button_message(button_id, state) ==
  [type |-> "button_state",
   buttons |-> <<[id |-> button_id, state |-> state]>>]

haptic_feedback_response ==
  [type |-> "haptic_feedback_response", success |-> TRUE]

\* button_sequence of websocket_handler without the delays
ws_button_sequence == <<(<<1>>), (<<2>>), (<<20>>), (<<32>>)>>

WsEvents == ScriptEvents(ws_button_sequence)

\* TRUE for a message that "if ws.closed: break" precedes
WsChecks == ScriptChecks(ws_button_sequence)

\* the texts a client sends
HapticText == "{\"type\": \"haptic_feedback\", \"pattern\": \"short\"}"

PingText == "{\"type\": \"ping\"}"

ListText == "[]"

BrokenText == "{\"type\": "

\* json.loads on these texts: a dict, a list, or JSONDecodeError
json_loads(text) ==
  IF text = HapticText
    THEN Ok([json |-> "dict", type |-> <<"haptic_feedback">>])
  ELSE IF text = PingText THEN Ok([json |-> "dict", type |-> <<"ping">>])
  ELSE IF text = ListText THEN Ok([json |-> "list", type |-> <<>>])
  ELSE Raise("JSONDecodeError")

\* the frames the handler may receive
WsFrames ==
  [type : {"TEXT"}, data : {HapticText, PingText, ListText, BrokenText}]
    \cup {[type |-> "BINARY", data |-> ""], [type |-> "ERROR", data |-> ""]}

WsScripts == SeqUpTo(WsFrames, MaxMsgs)

InitWs ==
  /\ NoTcp
  /\ NoHandler
  /\ pc = "ws"
  /\ op = "ws"
  /\ arg = [kind |-> "none"]
  /\ wire = <<>>
  /\ res = NoResult
  /\ wpc = "start"
  /\ wtask = "none"
  /\ wclients = FALSE
  /\ wscript \in WsScripts
  /\ wpos = 0
  /\ wconn = "open"
  /\ wsent = <<>>
  /\ wdpc = 0

\* ws.send_str raises on a connection that is lost
WsSendFails == wconn = "lost"

\* the statements after the loop: button_task.cancel() and
\* device.connected_clients.discard(ws)
WsCleanup ==
  /\ wtask' = (IF wtask = "running" THEN "cancelled" ELSE wtask)
  /\ wclients' = FALSE
  /\ wpc' = "finished"

\* ws.prepare(request) and device.connected_clients.add(ws)
WsStart ==
  /\ wpc = "start"
  /\ wclients' = TRUE
  /\ wpc' = "status"
  /\ UNCHANGED <<codecvars, tcpvars, hcvars, wtask, wscript, wpos, wconn,
                 wsent, wdpc>>

\* await ws.send_str(json.dumps(device.get_status_message())) and the
\* start of the button task
WsSendStatus ==
  /\ wpc = "status"
  /\ IF WsSendFails
     THEN /\ wpc' = "raised"
          /\ UNCHANGED <<wtask, wsent, wdpc>>
     ELSE /\ wsent' = Append(wsent, ws_get_status_message)
          /\ wtask' = "running"
          /\ wdpc' = 1
          /\ wpc' = "receive"
  /\ UNCHANGED <<codecvars, tcpvars, hcvars, wclients, wscript, wpos, wconn>>

\* one round of "async for msg in ws": the next frame, or the end of the
\* loop and the clean-up once the connection is closed.  A text that is no
\* JSON is reported; data.get fails on JSON that is no object, and that
\* exception is not caught
WsReceive ==
  /\ wpc = "receive"
  /\ IF wconn = "open"
     THEN /\ wpos < Len(wscript)
          /\ wpos' = wpos + 1
          /\ LET msg == wscript[wpos + 1]
                 data == json_loads(msg.data)
             IN  wpc' = (IF msg.type # "TEXT" THEN "receive"
                         ELSE IF ~data.ok THEN "receive"
                         ELSE IF data.val.json # "dict" THEN "raised"
                         ELSE IF data.val.type = <<"haptic_feedback">>
                           THEN "respond"
                         ELSE "receive")
          /\ UNCHANGED <<wtask, wclients>>
     ELSE /\ WsCleanup
          /\ wpos' = wpos
  /\ UNCHANGED <<codecvars, tcpvars, hcvars, wscript, wconn, wsent, wdpc>>

\* await ws.send_str(json.dumps(response)): an exception of send_str is no
\* JSONDecodeError and leaves the handler
WsRespond ==
  /\ wpc = "respond"
  /\ IF WsSendFails
     THEN /\ wpc' = "raised"
          /\ wsent' = wsent
     ELSE /\ wsent' = Append(wsent, haptic_feedback_response)
          /\ wpc' = "receive"
  /\ UNCHANGED <<codecvars, tcpvars, hcvars, wtask, wclients, wscript, wpos,
                 wconn, wdpc>>

\* the handler's task is cancelled while it awaits a send or a frame
WsCancelled ==
  /\ wpc \in {"status", "receive", "respond"}
  /\ wpc' = "raised"
  /\ UNCHANGED <<codecvars, tcpvars, hcvars, wtask, wclients, wscript, wpos,
                 wconn, wsent, wdpc>>

\* simulate_buttons: the next message of the sequence.  Before a press
\* "if ws.closed: break" ends the task on a closed connection; a send on a
\* connection that is not open raises
WsButton ==
  /\ wtask = "running"
  /\ wdpc \in 1..Len(WsEvents)
  /\ IF wconn = "open"
     THEN /\ wsent' = Append(wsent, ws_button_message(WsEvents[wdpc][1],
                                                      WsEvents[wdpc][2]))
          /\ wdpc' = wdpc + 1
          /\ wtask' = (IF wdpc = Len(WsEvents) THEN "done" ELSE wtask)
     ELSE /\ \/ wtask' = "failed"
             \/ WsChecks[wdpc] /\ wtask' = "done"
          /\ UNCHANGED <<wsent, wdpc>>
  /\ UNCHANGED <<codecvars, tcpvars, hcvars, wpc, wclients, wscript, wpos,
                 wconn>>

WsClientClose ==
  /\ wconn = "open"
  /\ wconn' = "closed"
  /\ UNCHANGED <<codecvars, tcpvars, hcvars, wpc, wtask, wclients, wscript,
                 wpos, wsent, wdpc>>

WsClientLost ==
  /\ wconn = "open"
  /\ wconn' = "lost"
  /\ UNCHANGED <<codecvars, tcpvars, hcvars, wpc, wtask, wclients, wscript,
                 wpos, wsent, wdpc>>

NextWs ==
  \/ WsStart
  \/ WsSendStatus
  \/ WsReceive
  \/ WsRespond
  \/ WsCancelled
  \/ WsButton
  \/ WsClientClose
  \/ WsClientLost

SpecWs == InitWs /\ [][NextWs]_vars

(***************************************************************************)
(* Properties.                                                             *)
(***************************************************************************)
InRange(buttons) == AllBytes(PairBytes(buttons))

\* C1: button-state round trip.  For every sequence v of (button_id, state)
\* pairs with both values in 0..255, the empty one included, encoding v
\* does not raise and parsing the encoded buffer returns exactly v.
C1_ButtonRoundTrip ==
  (op = "button_state" /\ arg.kind = "value" /\ InRange(arg.v))
    => /\ pc # "raised"
       /\ pc = "done" => (res.ok /\ res.val = arg.v)

C1_Witness ==
  /\ pc = "done"
  /\ op = "button_state"
  /\ arg.kind = "value"
  /\ Len(arg.v) >= 2
  /\ arg.v[1] # arg.v[2]
  /\ res.val = arg.v

\* the pairs (buf[1+2k], buf[2+2k]), k = 0 .. floor((len-1)/2)-1, of a
\* buffer indexed from 0
PairsOf(buf) ==
  [k \in 1..((Len(buf) - 1) \div 2) |-> <<buf[2 * k], buf[2 * k + 1]>>]

\* C10: parse_button_state is total and permissive.  It returns without
\* error for every buffer: the empty list when the buffer is empty or does
\* not start with 0x01, else the pairs that follow the tag in buffer order,
\* an unpaired final byte being dropped; [1,1,1,2] gives [(1,1)].
C10_ParseButtonStateTotal ==
  (pc = "done" /\ op = "button_state")
    => /\ res.ok
       /\ IF Len(wire) = 0 \/ wire[1] # 1
          THEN res.val = <<>>
          ELSE res.val = PairsOf(wire)
       /\ wire = <<1, 1, 1, 2>> => res.val = <<(<<1, 1>>)>>

C10_Witness ==
  /\ pc = "done"
  /\ op = "button_state"
  /\ wire = <<1, 1, 1, 2>>
  /\ res.val = <<(<<1, 1>>)>>

\* C8: in the message encode_app_info produces, the byte at index 2 is a
\* one-byte device-type code, 0x02 for "app" and 0x01 for "controller".
C8_DeviceTypeCode ==
  (pc = "sent" /\ op = "app_info")
    => /\ arg.v.device_type = StrApp => wire[3] = 2
       /\ arg.v.device_type = StrController => wire[3] = 1

\* C9: encoding never fails.  No encoder raises, whatever the caller
\* passes: values outside 0..255, more than 255 supported buttons, 256
\* button hints.
C9_EncodingNeverFails == pc # "raised"

\* the bytes of a string argument as encode_app_info emits them
Fit(s) == Truncate(Utf8Encode(s))

StringsFit(v) ==
  /\ Len(Utf8Encode(v.device_type)) <= MAX_STR_BYTES
  /\ Len(Utf8Encode(v.app_id)) <= MAX_STR_BYTES
  /\ Len(Utf8Encode(v.app_version)) <= MAX_STR_BYTES
  /\ \A i \in 1..Len(v.button_hints) :
       Len(Utf8Encode(v.button_hints[i][2])) <= MAX_STR_BYTES

\* button ids are bytes, as in the data model
IsAppInfoValue(v) ==
  AllBytes(v.supported_buttons) /\ HintIdsAreBytes(v.button_hints)

\* the dict with the given items (no key twice)
HintDict(items) ==
  [k \in {items[i][1] : i \in 1..Len(items)} |->
     items[CHOOSE i \in 1..Len(items) : items[i][1] = k][2]]

RoundTrips ==
  /\ pc # "raised"
  /\ pc = "done" =>
       /\ res.ok
       /\ res.val = [device_type |-> arg.v.device_type,
                     app_id |-> arg.v.app_id,
                     app_version |-> arg.v.app_version,
                     supported_buttons |-> arg.v.supported_buttons,
                     button_hints |-> HintDict(arg.v.button_hints)]

ExceedsErrors ==
  {"Device type length exceeds buffer", "App ID length exceeds buffer",
   "App version length exceeds buffer", "Button count exceeds buffer"}

IsAppInfoV1(data) ==
  Len(data) >= 2 /\ data[1] = MSG_TYPE_APP_INFO /\ data[2] = APP_INFO_VERSION

\* one of the next k mandatory fields, the first with its prefix at index
\* idx, declares more bytes than remain after its prefix
RECURSIVE Overlong(_, _, _)
Overlong(data, idx, k) ==
  /\ k > 0
  /\ idx < Len(data)
  /\ \/ data[idx + 1] > Len(data) - (idx + 1)
     \/ Overlong(data, idx + 1 + data[idx + 1], k - 1)

\* the same, and the fields before that one hold well-formed UTF-8
RECURSIVE OverlongAfterValid(_, _, _)
OverlongAfterValid(data, idx, k) ==
  /\ k > 0
  /\ idx < Len(data)
  /\ \/ data[idx + 1] > Len(data) - (idx + 1)
     \/ /\ Utf8Valid(Slice(data, idx + 1, idx + 1 + data[idx + 1]), 1)
        /\ OverlongAfterValid(data, idx + 1 + data[idx + 1], k - 1)

\* C3 as stated: bounds safety of parse_app_info.  Whenever a mandatory
\* length-prefixed field declares a length larger than the bytes that
\* remain after its prefix, decoding fails with a 'field exceeds buffer'
\* error and reads no index >= len(buf).
C3_AlwaysExceedsError ==
  (pc = "done" /\ op = "app_info" /\ IsAppInfoV1(wire)
     /\ Overlong(wire, 2, 4))
    => /\ ~res.ok
       /\ res.err \in ExceedsErrors
       /\ res.hi < Len(wire)

\* C3 as amended: bounds safety of parse_app_info.  Whenever a mandatory
\* length-prefixed field of a version 1 AppInfo buffer declares a length
\* larger than the bytes that remain after its prefix, decoding fails and
\* reads no index >= len(buf); the error is 'too short' when the buffer
\* has fewer than 4 bytes, the decode error of an earlier string field
\* that is not valid UTF-8, and a 'field exceeds buffer' error in every
\* other case; [0x04, 0x01, 0xFF, 0x01, 0x02] fails with 'device type
\* length exceeds buffer'.
C3_BoundsSafety ==
  (pc = "done" /\ op = "app_info" /\ IsAppInfoV1(wire)
     /\ Overlong(wire, 2, 4))
    => /\ ~res.ok
       /\ res.hi < Len(wire)
       /\ Len(wire) < 4 => res.err = "App info message too short"
       /\ (Len(wire) >= 4 /\ ~OverlongAfterValid(wire, 2, 4))
            => res.err = "UnicodeDecodeError"
       /\ (Len(wire) >= 4 /\ OverlongAfterValid(wire, 2, 4))
            => res.err \in ExceedsErrors
       /\ wire = <<4, 1, 255, 1, 2>>
            => res.err = "Device type length exceeds buffer"

C3_Witness ==
  /\ pc = "done"
  /\ op = "app_info"
  /\ wire = <<4, 1, 255, 1, 2>>
  /\ res.err = "Device type length exceeds buffer"
  /\ res.hi = 2

\* C5 as stated: every buffer that starts with the AppInfo tag 0x04 and
\* has a version byte other than 0x01 fails with the 'unsupported
\* version' error, whatever the rest of the buffer is.
C5_AlwaysUnsupportedVersion ==
  (pc = "done" /\ op = "app_info" /\ Len(wire) >= 2
     /\ wire[1] = MSG_TYPE_APP_INFO /\ wire[2] # APP_INFO_VERSION)
    => (~res.ok /\ res.err = "Unsupported app info version")

\* C5 as amended: every buffer of at least 4 bytes that starts with the
\* AppInfo tag 0x04 and has a version byte other than 0x01 fails with the
\* 'unsupported version' error, whatever the rest of the buffer is; such a
\* buffer of 2 or 3 bytes fails with the 'too short' error.
C5_UnsupportedVersion ==
  (pc = "done" /\ op = "app_info" /\ Len(wire) >= 2
     /\ wire[1] = MSG_TYPE_APP_INFO /\ wire[2] # APP_INFO_VERSION)
    => /\ ~res.ok
       /\ res.err = IF Len(wire) >= 4 THEN "Unsupported app info version"
                    ELSE "App info message too short"

C5_Witness ==
  /\ pc = "done"
  /\ op = "app_info"
  /\ Len(wire) >= 4
  /\ wire[1] = MSG_TYPE_APP_INFO
  /\ wire[2] = 2
  /\ res.err = "Unsupported app info version"

\* number of bytes of the mandatory part of encode_app_info(v)
MandatoryLen(v) ==
  2 + (1 + Len(Fit(v.device_type))) + (1 + Len(Fit(v.app_id)))
    + (1 + Len(Fit(v.app_version))) + (1 + Len(v.supported_buttons))

\* number of leading hints of h that end within the first n bytes of the
\* message, pos bytes of it preceding h
RECURSIVE HintsWithin(_, _, _)
HintsWithin(h, pos, n) ==
  IF h = <<>> THEN 0
  ELSE LET end == pos + 2 + Len(Fit(Head(h)[2]))
       IN  IF end <= n THEN 1 + HintsWithin(Tail(h), end, n) ELSE 0

\* a string argument as a decoder sees it
Decoded(s) == Utf8Decode(Fit(s)).val

DecodedItems(h) == [i \in 1..Len(h) |-> <<h[i][1], Decoded(h[i][2])>>]

\* C4: prefixes of an encoded AppInfo message.  Every proper prefix that
\* ends before the last supported-button byte is rejected with an error;
\* every prefix that contains the whole mandatory part decodes
\* successfully with the device_type, app_id, app_version and
\* supported_buttons of the message and with the hints that are
\* completely inside the prefix.
C4_PrefixDecoding ==
  (pc = "done" /\ op = "app_info" /\ arg.kind = "prefix")
    => LET v == arg.v
           m == MandatoryLen(v)
           j == HintsWithin(v.button_hints, m + 1, Len(wire))
       IN  IF Len(wire) < m THEN ~res.ok
           ELSE /\ res.ok
                /\ res.val =
                     [device_type |-> Decoded(v.device_type),
                      app_id |-> Decoded(v.app_id),
                      app_version |-> Decoded(v.app_version),
                      supported_buttons |-> v.supported_buttons,
                      button_hints |->
                        HintDict(DecodedItems(SubSeq(v.button_hints, 1, j)))]

\* the dict that the given hints of a buffer build, later entries
\* replacing earlier ones with the same button id
RECURSIVE FoldHints(_, _)
FoldHints(h, d) ==
  IF h = <<>> THEN d
  ELSE FoldHints(Tail(h), DictPut(d, Head(h)[1], Utf8Decode(Head(h)[2]).val))

LabelsValid(h) == \A i \in 1..Len(h) : Utf8Valid(h[i][2], 1)

MandatoryOf(r) ==
  [device_type |-> r.device_type, app_id |-> r.app_id,
   app_version |-> r.app_version, supported_buttons |-> r.supported_buttons]

HintsAccepted ==
  /\ res.ok
  /\ MandatoryOf(res.val) = MandatoryOf(parse_app_info(arg.mand).val)
  /\ res.val.button_hints = FoldHints(arg.complete, EmptyDict)

\* C6 as stated: partial acceptance of button hints.  When the hint count
\* is present and the buffer ends before all declared hints are complete,
\* parse_app_info does not fail: it returns the mandatory fields and
\* exactly the hints that precede the truncated one.
C6_NeverFailsOnHints ==
  (pc = "done" /\ op = "app_info" /\ arg.kind = "hints") => HintsAccepted

\* C6 as amended: partial acceptance of button hints.  When the hint count
\* is present and the buffer ends before all declared hints are complete
\* (missing button id, missing label length, or label longer than the
\* remaining bytes), parse_app_info does not fail provided the label of
\* every complete hint is valid UTF-8: it returns the mandatory fields and
\* exactly the hints that precede the truncated one; if the label of a
\* complete hint is not valid UTF-8 the call raises UnicodeDecodeError.
C6_PartialHints ==
  (pc = "done" /\ op = "app_info" /\ arg.kind = "hints")
    => IF LabelsValid(arg.complete) THEN HintsAccepted
       ELSE ~res.ok /\ res.err = "UnicodeDecodeError"

C6_Witness ==
  /\ pc = "done"
  /\ op = "app_info"
  /\ arg.kind = "hints"
  /\ Len(arg.complete) = 2
  /\ arg.complete[1][1] # arg.complete[2][1]
  /\ arg.tail = <<32, 2, 65>>
  /\ res.ok
  /\ DOMAIN res.val.button_hints = HintIds

\* the length prefix of string s stands at position pos (from 1) of data
\* and the first min(n, 32) bytes of s follow it
FieldAt(data, pos, s) ==
  LET b == Utf8Encode(s)
      n == Min(Len(b), MAX_STR_BYTES)
  IN  /\ pos + n <= Len(data)
      /\ data[pos] = n
      /\ SubSeq(data, pos + 1, pos + n) = SubSeq(b, 1, n)

FieldEnd(pos, s) == pos + 1 + Min(Len(Utf8Encode(s)), MAX_STR_BYTES)

RECURSIVE LabelsAt(_, _, _)
LabelsAt(data, pos, h) ==
  IF h = <<>> THEN Len(data) = pos - 1
  ELSE /\ FieldAt(data, pos + 1, Head(h)[2])
       /\ LabelsAt(data, FieldEnd(pos + 1, Head(h)[2]), Tail(h))

C11_ParseDeviceStatus ==
  (pc = "done" /\ op = "device_status")
    => IF Len(wire) < 3
       THEN ~res.ok /\ res.err = "Device status message too short"
       ELSE IF wire[1] # 2
         THEN ~res.ok /\ res.err = "Invalid message type"
       ELSE /\ res.ok
            /\ res.val.battery = (IF wire[2] = 255 THEN <<>> ELSE <<wire[2]>>)
            /\ res.val.connected = (wire[3] = 1)
            /\ wire = <<2, 255, 0>>
                 => res.val = [battery |-> <<>>, connected |-> FALSE]

C11_Witness ==
  /\ pc = "done"
  /\ op = "device_status"
  /\ arg.kind = "raw"
  /\ wire = <<2, 255, 0>>
  /\ res.ok
  /\ res.val.battery = <<>>
  /\ ~res.val.connected

\* C12: device-status round trip.  For a battery level in 0..100 or None
\* and either connected flag, encode_device_status does not raise and emits
\* exactly [0x02, battery or 0xFF, 0x01 or 0x00], and parse_device_status
\* of that buffer returns the same battery level and flag.
C12_DeviceStatusRoundTrip ==
  (/\ op = "device_status"
   /\ arg.kind = "value"
   /\ (arg.v.battery = <<>> \/ arg.v.battery[1] \in 0..100))
    => /\ pc # "raised"
       /\ pc \in {"sent", "done"}
            => wire = <<2,
                        IF arg.v.battery = <<>> THEN 255 ELSE arg.v.battery[1],
                        IF arg.v.connected THEN 1 ELSE 0>>
       /\ pc = "done" => (res.ok /\ res.val = arg.v)

C12_Witness ==
  /\ pc = "done"
  /\ op = "device_status"
  /\ arg.kind = "value"
  /\ arg.v.battery = <<100>>
  /\ arg.v.connected
  /\ wire = <<2, 100, 1>>
  /\ res.val = arg.v

\* the pattern names of the protocol, byte 0x00 first
KnownPatterns ==
  <<"none", "short", "double", "triple", "long", "success", "warning",
    "error">>

KnownPatternByte(name) ==
  (CHOOSE i \in 1..Len(KnownPatterns) : KnownPatterns[i] = name) - 1

IsKnownPattern(name) == \E i \in 1..Len(KnownPatterns) : KnownPatterns[i] = name

\* C13: haptic round trip.  For every known pattern name and duration and
\* intensity in 0..255, encode_haptic_feedback does not raise and emits
\* [0x03, pattern_byte, duration, intensity], the names none, short,
\* double, triple, long, success, warning, error having the bytes 0x00 to
\* 0x07 in that order, and parse_haptic_feedback of that buffer returns the
\* same name, duration and intensity; (double, 20, 128) is [3, 2, 20, 128].
C13_HapticRoundTrip ==
  (/\ op = "haptic_feedback"
   /\ arg.kind = "value"
   /\ IsKnownPattern(arg.v.pattern)
   /\ IsByte(arg.v.duration)
   /\ IsByte(arg.v.intensity))
    => /\ pc # "raised"
       /\ pc \in {"sent", "done"}
            => wire = <<3, KnownPatternByte(arg.v.pattern), arg.v.duration,
                        arg.v.intensity>>
       /\ pc = "done"
            => /\ res.ok
               /\ res.val.pattern = arg.v.pattern
               /\ res.val.duration = arg.v.duration
               /\ res.val.intensity = arg.v.intensity

C13_Witness ==
  /\ pc = "done"
  /\ op = "haptic_feedback"
  /\ arg.kind = "value"
  /\ arg.v = [pattern |-> "double", duration |-> 20, intensity |-> 128]
  /\ wire = <<3, 2, 20, 128>>
  /\ res.ok
  /\ res.val.pattern = "double"
  /\ res.val.duration = 20
  /\ res.val.intensity = 128

\* C14: parse_haptic_feedback is determined for every buffer.  It fails
\* with "too short" when fewer than 3 bytes follow the first byte (the
\* empty buffer included, and whatever the first byte is); otherwise with
\* "invalid message type" when the first byte is not 0x03; otherwise it
\* succeeds, returning the pattern byte, duration and intensity unchanged
\* and the pattern's name, which is "unknown" for a pattern byte outside
\* 0x00..0x07.
C14_ParseHapticFeedback ==
  (pc = "done" /\ op = "haptic_feedback")
    => IF Len(wire) - 1 < 3
       THEN ~res.ok /\ res.err = "Haptic feedback message too short"
       ELSE IF wire[1] # 3
         THEN ~res.ok /\ res.err = "Invalid message type"
       ELSE /\ res.ok
            /\ res.val.pattern_byte = wire[2]
            /\ res.val.duration = wire[3]
            /\ res.val.intensity = wire[4]
            /\ res.val.pattern = (IF wire[2] \in 0..7
                                  THEN KnownPatterns[wire[2] + 1]
                                  ELSE "unknown")

C14_Witness ==
  /\ pc = "done"
  /\ op = "haptic_feedback"
  /\ arg.kind = "raw"
  /\ wire = <<3, 8, 255, 0>>
  /\ res.ok
  /\ res.val.pattern = "unknown"
  /\ res.val.pattern_byte = 8

\* C15: encode_haptic_feedback never fails on the pattern.  For a pattern
\* name that is none of the eight known ones the pattern byte is 0x01
\* ("short") and the other bytes are those of a known pattern: the tag
\* 0x03, the duration and the intensity; the call raises only when the
\* duration or the intensity is no byte.
C15_UnknownPatternFallback ==
  (/\ op = "haptic_feedback"
   /\ arg.kind = "value"
   /\ ~IsKnownPattern(arg.v.pattern))
    => /\ pc = "raised" => ~(IsByte(arg.v.duration) /\ IsByte(arg.v.intensity))
       /\ pc \in {"sent", "done"}
            => wire = <<3, 1, arg.v.duration, arg.v.intensity>>

C15_Witness ==
  /\ pc = "sent"
  /\ op = "haptic_feedback"
  /\ arg.v.pattern = "bogus"
  /\ arg.v.duration = 20
  /\ wire = <<3, 1, 20, 128>>

\* C16: unframed haptic interoperability over BLE.  A haptic command that
\* the BLE trainer app writes to the haptic characteristic (the 3 bytes
\* pattern, duration, intensity, no tag byte) is decoded by the write
\* handler of the mock BLE device to the same pattern, duration and
\* intensity.
C16_BleHapticInterop ==
  (pc = "done" /\ op = "ble_haptic")
    => /\ res.ok
       /\ res.val.pattern_byte = wire[1]
       /\ res.val.pattern = (IF IsKnownPattern(arg.v.pattern)
                             THEN arg.v.pattern ELSE "short")
       /\ res.val.duration = arg.v.duration
       /\ res.val.intensity = arg.v.intensity

\* C17: button-state interoperability over BLE.  For every event
\* (button_id, state) that the mock BLE device notifies through
\* update_button_state, the notification callback of the BLE trainer app
\* decodes exactly the list [(button_id, state)].
C17_BleButtonInterop ==
  (pc = "done" /\ op = "ble_button")
    => res.val.buttons = <<(<<arg.v.button_id, arg.v.state>>)>>

\* the bytes of a complete AppInfo message start the sequence b
StartsWithAppInfo(b) ==
  \E k \in 1..Len(b) : parse_app_info(SubSeq(b, 1, k)).ok

InReadLoop == apc \in {"read_type", "read_chunk", "read_status", "read_skip"}

\* C18: once the TCP connection is established, connect_and_monitor first
\* writes one AppInfo message to the device and then enters the message
\* read loop, which it does not leave while the connection is open: the
\* app is past the connected state only with an AppInfo message written,
\* and it is out of the read loop only when the device has closed.
C18_AppInfoThenReadLoop ==
  (astart = "connect_and_monitor" /\ apc # "connected")
    => /\ StartsWithAppInfo(toDev)
       /\ InReadLoop \/ dev = "closed"

IsPrefix(a, b) == Len(a) <= Len(b) /\ a = SubSeq(b, 1, Len(a))

\* C20: however the TCP byte stream is cut into read chunks, the button
\* events the read loop of the TCP trainer app decodes are the events the
\* mock TCP device sent, in the order they were sent: at every moment the
\* decoded events are the first of the sent ones.
C20_EventsAsSent == IsPrefix(decoded, sent)

\* the patterns of the haptic commands among the messages m
RECURSIVE HapticsOf(_)
HapticsOf(m) ==
  IF m = <<>> THEN <<>>
  ELSE (IF Head(m)[1] = 3 /\ Len(Head(m)) = 4
        THEN <<KnownPatterns[Head(m)[2] + 1]>> ELSE <<>>)
       \o HapticsOf(Tail(m))

\* C21: the mock TCP device parses and reports every well-formed haptic
\* message a client sends, wherever it is in the stream: whenever
\* handle_client has read all the client has written and waits for the
\* next message on the open connection, it has reported the haptic
\* commands among the messages written, in their order.
C21_EveryHapticReported ==
  (hpc = "read_type" /\ toDev = <<>> /\ conn = "open")
    => reported = HapticsOf(SubSeq(script, 1, cpos))

\* one framed "short" command for every event whose state is 1
RECURSIVE ShortCommands(_)
ShortCommands(events) ==
  IF events = <<>> THEN <<>>
  ELSE (IF Head(events)[2] = 1 THEN <<3, 1, 0, 0>> ELSE <<>>)
       \o ShortCommands(Tail(events))

\* C22: for every decoded button event with state 1 the TCP trainer app
\* writes one framed haptic "short" command [0x03, 0x01, 0x00, 0x00] to
\* the device and goes on reading; for an event with another state it
\* writes nothing.  So what the read loop has written is one command for
\* each decoded event of state 1, and the loop has not been left for an
\* error.
C22_HapticOnPress ==
  astart = "read_tcp_messages"
    => /\ toDev = ShortCommands(decoded)
       /\ aexit \in {"", "eof", "short read"}

\* the buttons the mock TCP device presses and releases
DigitalButtons == {1, 2, 20}

IsPress(event) == event[1] \in DigitalButtons /\ event[2] = 1

\* C23: a simulated button press is a press and a release.  Every press
\* message the mock TCP device has sent for a button is followed by the
\* release message of the same button before any other message, and the
\* simulation does not end, by cancellation either, with a press as its
\* last message.
C23_PressThenRelease ==
  /\ \A i \in 1..(Len(sent) - 1) :
       IsPress(sent[i]) => sent[i + 1] = <<sent[i][1], 0>>
  /\ (btask \in {"done", "cancelled", "failed"} /\ sent # <<>>)
       => ~IsPress(sent[Len(sent)])

\* floor((s - 2) * 100 / 253)
AnalogPercent(s) == ((s - 2) * 100) \div 253

\* C24: format_button_state, for every button id other than 0x20 and 0x40,
\* shows state 0 as RELEASED, state 1 as PRESSED and every state s in
\* 2..255 as ANALOG p% with p = floor((s - 2) * 100 / 253); p is in 0..100,
\* is 0 for s = 2 and 100 for s = 255, and does not decrease when s grows;
\* a button id without a name is shown by its two-digit hex id.
C24_FormatButtonState ==
  (pc = "done" /\ op = "format" /\ arg.v.button_id \notin {32, 64})
    => LET id == arg.v.button_id
           s == arg.v.state
           shown == IF id \in {96, 255}
                    THEN "Button 0x" \o (IF id = 96 THEN "60" ELSE "FF")
                    ELSE BUTTON_NAMES[id]
       IN  /\ s = 0 => res.val = shown \o ": RELEASED"
           /\ s = 1 => res.val = shown \o ": PRESSED"
           /\ s >= 2
                => /\ res.val = shown \o ": ANALOG "
                                  \o ToString(AnalogPercent(s)) \o "%"
                   /\ Percentage(s) \in 0..100
                   /\ \A t \in 2..s : Percentage(t) <= Percentage(s)
           /\ s = 2 => res.val = shown \o ": ANALOG 0%"
           /\ s = 255 => res.val = shown \o ": ANALOG 100%"

C24_Witness ==
  /\ pc = "done"
  /\ op = "format"
  /\ arg.v = [button_id |-> 255, state |-> 128]
  /\ res.val = "Button 0xFF: ANALOG 49%"

\* C25: a well-formed AppInfo message in the older layout (tag, version 1,
\* app_id, app_version, button count, button ids; no device_type, no hint
\* count) is never decoded successfully by parse_app_info with shifted
\* fields: for every such message the call fails with an error.
C25_OldLayoutRejected ==
  (pc = "done" /\ op = "ble_app_info" /\ arg.kind = "framed")
    => /\ wire = <<MSG_TYPE_APP_INFO>> \o ble_send_app_info(arg.v).val
       /\ ~res.ok
       /\ res.err \in {"Missing button count", "UnicodeDecodeError"}

C25_Witness ==
  /\ pc = "done"
  /\ op = "ble_app_info"
  /\ arg.kind = "framed"
  /\ arg.v.app_id = StrApp
  /\ arg.v.supported_buttons = BleDefaultButtons
  /\ res.err = "Missing button count"

\* C26: every buffer that encode_app_info returns is accepted by
\* parse_app_info.  For all string inputs, also strings longer than 32
\* bytes with multi-byte UTF-8 characters that are truncated on encode,
\* decoding the encoder's output succeeds and each decoded string is the
\* truncated field.
C26_EncoderOutputAccepted ==
  (pc = "done" /\ op = "app_info" /\ arg.kind = "value")
    => /\ res.ok
       /\ Utf8Encode(res.val.device_type) = Fit(arg.v.device_type)
       /\ Utf8Encode(res.val.app_id) = Fit(arg.v.app_id)
       /\ Utf8Encode(res.val.app_version) = Fit(arg.v.app_version)
       /\ \A i \in 1..Len(arg.v.button_hints) :
            Utf8Encode(res.val.button_hints[arg.v.button_hints[i][1]])
              = Fit(arg.v.button_hints[i][2])

\* C27: the read loop of the TCP trainer app (read_tcp_messages) stops only
\* when the peer has closed the connection, an exception is raised or the
\* task is cancelled: while the connection is open and the device keeps
\* sending well-formed messages the loop never exits, however few bytes a
\* single read returns.
C27_ReadLoopStopsOnlyAtEof ==
  (astart = "read_tcp_messages" /\ apc \in {"returned", "closed"})
    => \/ aexit = "eof" /\ dev = "closed"
       \/ aexit \notin {"", "eof", "short read"}

\* C28: in handle_client of the mock TCP device, on every way of leaving
\* the handler (client EOF, short read, exception, cancellation) the button
\* simulation task is cancelled and the client's writer is removed from
\* device.connected_clients and closed, so at every moment
\* connected_clients holds only writers of handlers that have not finished.
C28_HandlerCleansUp ==
  hpc \in {"finished", "aborted"}
    => /\ btask # "running"
       /\ ~clients
       /\ wclosed

\* C29: in websocket_handler of the mock WebSocket device, when the handler
\* stops for any reason, including an exception raised while receiving a
\* message or sending the haptic response, the button simulation task is
\* cancelled and the client is removed from device.connected_clients.
C29_WebSocketCleansUp ==
  wpc \in {"finished", "raised"}
    => /\ wtask # "running"
       /\ ~wclients

\* the pairs (b[0], b[1]), (b[2], b[3]), ... of a buffer, an unpaired final
\* byte left out
PairsFrom0(b) ==
  [k \in 1..(Len(b) \div 2) |-> <<b[2 * k - 1], b[2 * k]>>]

\* C30: the framed and the unframed button-state decoders agree.  For
\* every byte buffer b, protocol_parser.parse_button_state([0x01] + b)
\* equals ble_trainer_app.parse_button_state(b), both giving the pairs of b
\* in order and dropping an unpaired final byte.
C30_DecodersAgree ==
  (pc = "done" /\ op = "decoders")
    => /\ res.val.framed = res.val.unframed
       /\ res.val.unframed = PairsFrom0(wire)

C30_Witness ==
  /\ pc = "done"
  /\ op = "decoders"
  /\ wire = <<1, 255, 2>>
  /\ res.val.framed = <<(<<1, 255>>)>>
  /\ res.val.unframed = <<(<<1, 255>>)>>

====
